---- MODULE Spec2Model ----
(***************************************************************************)
(* A model of mod-auto-download (src/manager.py, src/mod.py,               *)
(* src/moderr.py, src/example.py). Several machines share the module, each *)
(* with its own specification:                                             *)
(*   SpecRL     RateLimiter.wait() called by concurrent threads            *)
(*              (FairSpecRL adds fairness)                                 *)
(*   Spec       ModManager.resolve_dependencies (FairSpec adds fairness)   *)
(*   SpecExpand the expand rule of resolve_dependencies on any descriptors *)
(*   SpecDL     ModManager.download_mods                                   *)
(*   SpecNew    Mod.__init__                                               *)
(*   SpecPhase  init_mod and check_version on the thread pool              *)
(*   SpecMod    one Mod: init, query_version and the accessors             *)
(*   SpecCtx    the ModManager context under get_mod                       *)
(*   SpecRun    the worker tasks of the phases of one run                  *)
(* A specification holds the other machines' variables still.              *)
(***************************************************************************)

EXTENDS Integers, Sequences, FiniteSets, TLC

VARIABLES
    \* ---- RateLimiter (manager.py 18-41) and its callers
    clock,          \* time.time(), in ticks
    rate_limit,     \* RateLimiter.rate_limit, in ticks
    last_req,       \* RateLimiter.last_req
    lock,           \* RateLimiter.lock: 0 when free, else the holding caller
    wpc,            \* per caller: position inside wait()
    wnow,           \* per caller: the local `now`
    wuntil,         \* per caller: the time its time.sleep() may return
    wcalls,         \* per caller: calls of wait() already returned
    releases        \* history: the values stored in last_req, in order

rlVars == <<clock, rate_limit, last_req, lock, wpc, wnow, wuntil, wcalls, releases>>

(***************************************************************************)
(* RateLimiter                                                             *)
(***************************************************************************)

\* Threads that call wait() concurrently.
NumCallers == 2
\* Calls of wait() each thread makes.
MaxCalls == 2
\* Clock ticks per second: the resolution of the modelled clock.
TicksPerSecond == 10
\* The clock's value when the RateLimiter is constructed (time.time() is far
\* from the 0.0 that last_req starts at).
StartClock == 8
\* How far the modelled clock runs.
Horizon == 7

Callers == 1..NumCallers

\* ModManager builds RateLimiter(300); the other rates widen the interval.
ReqPerMinChoices == {300, 200}

\* RateLimiter.__init__: rate_limit = 60 / req_per_min
RateLimitOf(req_per_min) == (60 * TicksPerSecond) \div req_per_min

RLInit ==
    /\ clock = StartClock
    /\ rate_limit \in {RateLimitOf(r) : r \in ReqPerMinChoices}
    /\ last_req = 0
    /\ lock = 0
    /\ wpc = [t \in Callers |-> "idle"]
    /\ wnow = [t \in Callers |-> 0]
    /\ wuntil = [t \in Callers |-> 0]
    /\ wcalls = [t \in Callers |-> 0]
    /\ releases = <<>>

\* Time passes: up to the horizon, and as long as a time.sleep() is under way.
Tick ==
    /\ \/ clock < StartClock + Horizon
       \/ \E t \in Callers : wpc[t] = "asleep" /\ clock < wuntil[t]
    /\ clock' = clock + 1
    /\ UNCHANGED <<rate_limit, last_req, lock, wpc, wnow, wuntil, wcalls, releases>>

\* A thread calls rl.wait() and blocks on `with self.lock`.
CallWait(t) ==
    /\ wpc[t] = "idle"
    /\ wcalls[t] < MaxCalls
    /\ wpc' = [wpc EXCEPT ![t] = "acquire"]
    /\ UNCHANGED <<clock, rate_limit, last_req, lock, wnow, wuntil, wcalls, releases>>

\* `with self.lock:` is entered.
AcquireLock(t) ==
    /\ wpc[t] = "acquire"
    /\ lock = 0
    /\ lock' = t
    /\ wpc' = [wpc EXCEPT ![t] = "now"]
    /\ UNCHANGED <<clock, rate_limit, last_req, wnow, wuntil, wcalls, releases>>

SleepNoneDuration(delta, limit) == 0

\* The argument of time.sleep(): rate_limit - delta when delta < rate_limit,
\* and no sleep otherwise.
SleepDuration(delta, limit) == IF delta < limit THEN limit - delta ELSE 0

\* now = time.time(); delta = now - self.last_req; time.sleep(...) starts.
ReadNow(t) ==
    /\ wpc[t] = "now"
    /\ wnow' = [wnow EXCEPT ![t] = clock]
    /\ LET delta == clock - last_req
           d == SleepDuration(delta, rate_limit)
       IN  /\ wuntil' = [wuntil EXCEPT ![t] = clock + d]
           /\ wpc' = [wpc EXCEPT ![t] = IF d > 0 THEN "asleep" ELSE "stamp"]
    /\ UNCHANGED <<clock, rate_limit, last_req, lock, wcalls, releases>>

\* time.sleep() returns: not before the requested duration has elapsed.
Wake(t) ==
    /\ wpc[t] = "asleep"
    /\ clock >= wuntil[t]
    /\ wpc' = [wpc EXCEPT ![t] = "stamp"]
    /\ UNCHANGED <<clock, rate_limit, last_req, lock, wnow, wuntil, wcalls, releases>>

\* self.last_req = time.time()
Stamp(t) ==
    /\ wpc[t] = "stamp"
    /\ last_req' = clock
    /\ releases' = Append(releases, clock)
    /\ wpc' = [wpc EXCEPT ![t] = "release"]
    /\ UNCHANGED <<clock, rate_limit, lock, wnow, wuntil, wcalls>>

LockKept(t) == t

\* threading.Lock.__exit__: the lock is free again.
LockAfterExit(t) == 0

\* The with-block is left: the lock is released and wait() returns.
ReleaseLock(t) ==
    /\ wpc[t] = "release"
    /\ lock = t
    /\ lock' = LockAfterExit(t)
    /\ wcalls' = [wcalls EXCEPT ![t] = @ + 1]
    /\ wpc' = [wpc EXCEPT ![t] = "idle"]
    /\ UNCHANGED <<clock, rate_limit, last_req, wnow, wuntil, releases>>

\* C1: the release times recorded in last_req by any number of concurrent
\* callers of wait() are pairwise at least rate_limit apart.
C1_MinSpacing ==
    \A i, j \in DOMAIN releases :
        i < j => releases[j] - releases[i] >= rate_limit

\* Two callers were inside wait() at once, one had to sleep, and three release
\* times have been recorded.
C1_Witness ==
    /\ Len(releases) >= 3
    /\ \E t, u \in Callers : t # u /\ wcalls[t] >= 1 /\ wcalls[u] >= 1
    /\ \E i \in DOMAIN releases : i > 1 /\ releases[i] - releases[i - 1] = rate_limit


(***************************************************************************)
(* Registry content, Mod instances and the insertion-ordered dicts         *)
(***************************************************************************)

\* Project ids of the registry (a Mod's slug_or_id is identified with the
\* project id the registry answers with).
Projects == {"A", "B", "C"}

\* Python's None.
None == "None"

\* The canonical order in which a version lists its dependency targets.
Rank(p) == CASE p = "A" -> 1 [] p = "B" -> 2 [] p = "C" -> 3 [] OTHER -> 4

\* dependency_type of a raw descriptor (the keys of edge_style).
DepTypes == {"required", "optional", "incompatible", "embedded"}

\* Seed mods handed to the ModManager (self.mods).
MaxSeeds == 2
\* Raw dependency descriptors of one chosen version.
MaxDeps == 2

\* The dependency types the registry's versions carry in the model.
ListedTypes == {"required", "optional", "incompatible"}

\* A raw descriptor of version_data()["dependencies"].
Descriptors(self) ==
    [project_id : Projects \ {self}, dependency_type : ListedTypes]

\* The dependency lists a chosen version of project `self` may carry.
DepLists(self) ==
    UNION { { l \in [1..n -> Descriptors(self)] :
                \A i \in 1..n, j \in 1..n :
                    i < j => Rank(l[i].project_id) < Rank(l[j].project_id) }
            : n \in 0..MaxDeps }

\* What the registry answers for a project:
\*   "ok"          project found, a version matches game version and loader
\*   "noversion"   project found, no matching version (or version list 404)
\*   "unsupported" project found, the required side is unsupported
\*   "gone"        GET /project/{id} answers 404
FailStatus == {"noversion", "unsupported", "gone"}

Statuses == {"ok"} \cup FailStatus

\* The dependency list of a chosen version that nothing has read yet: the
\* registry's content is decided when it is first observed, and fixed then.
Unread == <<[project_id |-> None, dependency_type |-> "unread"]>>

\* A project the registry was not asked about yet.
Unknown == [status |-> "unknown", deps |-> Unread]

\* Mod.__init__ (mod.py 27-40): a fresh, unresolved Mod.
NewMod(id) == [slug_or_id |-> id, project |-> FALSE, version |-> FALSE]

\* A Mod that went through init() and query_version() successfully.
ResolvedMod(id) == [slug_or_id |-> id, project |-> TRUE, version |-> TRUE]

\* ---- dict: Python's insertion-ordered dict, a sequence of key/value pairs
DictHas(d, k) == \E i \in DOMAIN d : d[i].key = k

DictGet(d, k) ==
    IF DictHas(d, k)
    THEN d[CHOOSE i \in DOMAIN d : d[i].key = k].value
    ELSE None

DictSetAppend(d, k, v) == Append(d, [key |-> k, value |-> v])

\* d[k] = v: the value is replaced in place when the key is present, and the
\* pair is added at the end otherwise.
DictSet(d, k, v) ==
    IF DictHas(d, k)
    THEN [i \in DOMAIN d |-> IF d[i].key = k THEN [key |-> k, value |-> v] ELSE d[i]]
    ELSE Append(d, [key |-> k, value |-> v])

\* del d[k]
RECURSIVE DictDel(_, _)
DictDel(d, k) ==
    IF d = <<>> THEN <<>>
    ELSE IF Head(d).key = k THEN DictDel(Tail(d), k)
         ELSE <<Head(d)>> \o DictDel(Tail(d), k)

DictKeys(d) == {d[i].key : i \in DOMAIN d}


(***************************************************************************)
(* ModManager.resolve_dependencies (manager.py 184-422)                    *)
(***************************************************************************)

VARIABLES
    reg,                \* the registry's content, per project, once it answered
    mods,               \* self.mods: the seed Mods
    allow_optional_mod, \* the argument of resolve_dependencies
    pc,                 \* position of the coordinating thread
    level,              \* iterations of `while mods_cur` started
    mods_cur,           \* the frontier of the current level
    idx,                \* index of the frontier member processed next
    dep_mods,           \* the Mods queued for the next level
    tasks,              \* the futures of the level: state and outcome
    nodes,              \* dict: project id -> attributes (or None)
    edges,              \* list of (target id, parent id, type)
    errors,             \* list of ModError
    all_mods,           \* self.all_mods: dict project id -> Mod
    finalmsg,           \* self.finalmsg
    met_condition,      \* self.met_condition
    result,             \* what resolve_dependencies returned: "True", "False", or None before
    entered             \* history: how often each id entered the frontier

resVars == <<reg, mods, allow_optional_mod, pc, level, mods_cur, idx, dep_mods,
             tasks, nodes, edges, errors, all_mods, finalmsg, met_condition,
             result, entered>>

\* Iterations of the frontier loop the model follows.
MaxLevels == 4

NoError == [kind |-> "none", id |-> None, about |-> None, true_deps |-> <<>>]

\* ModNotFoundError(msg, except_mod_id), raised while resolving `about`.
NotFoundError(except_mod_id, about) ==
    [kind |-> "NotFound", id |-> except_mod_id, about |-> about, true_deps |-> <<>>]

\* ModError(dep_tree) of the incompatibility detection: `dep` is incompatible
\* with `mod`, and true_deps are the mods that need dep.
ConflictError(dep, mod, true_deps) ==
    [kind |-> "Incompatible", id |-> dep, about |-> mod, true_deps |-> true_deps]

\* ---- the expand rule, manager.py 270-291

\* mod_already_exists: dep["project_id"] in nodes
ModAlreadyExists(ns, project_id) == DictHas(ns, project_id)

SkipOnlyNull(allow, dep, exists) == dep.project_id = None

SkipAsIfAllowed(allow, dep, exists) ==
    dep.project_id = None \/ (dep.dependency_type = "incompatible" /\ ~exists)

\* The `continue` of line 280: no project id, or an incompatible or (not
\* allowed) optional dependency on a mod that is not a node yet.
SkipDep(allow, dep, exists) ==
    LET mod_incompatible == dep.dependency_type = "incompatible"
        mod_optional == ~allow /\ dep.dependency_type = "optional"
    IN  dep.project_id = None \/ ((mod_incompatible \/ mod_optional) /\ ~exists)

\* One iteration of `for dep in deps` for the mod `parent`.
ExpandDep(acc, allow, parent, dep) ==
    LET exists == ModAlreadyExists(acc.nodes, dep.project_id)
        met == acc.met \cup {dep.dependency_type}
    IN  IF SkipDep(allow, dep, exists)
        THEN [acc EXCEPT !.met = met]
        ELSE LET es == Append(acc.edges, <<dep.project_id, parent, dep.dependency_type>>)
             IN  IF exists
                 THEN [acc EXCEPT !.met = met, !.edges = es]
                 ELSE [nodes |-> DictSet(acc.nodes, dep.project_id, None),
                       edges |-> es,
                       dep_mods |-> Append(acc.dep_mods, NewMod(dep.project_id)),
                       met |-> met]

RECURSIVE ExpandDeps(_, _, _, _)
ExpandDeps(acc, allow, parent, deps) ==
    IF deps = <<>> THEN acc
    ELSE ExpandDeps(ExpandDep(acc, allow, parent, Head(deps)), allow, parent, Tail(deps))

\* ---- optional-chain pruning, manager.py 320-338

\* list.remove(x): the first occurrence is removed.
RECURSIVE RemoveFirst(_, _)
RemoveFirst(s, x) ==
    IF s = <<>> THEN <<>>
    ELSE IF Head(s) = x THEN Tail(s)
         ELSE <<Head(s)>> \o RemoveFirst(Tail(s), x)

EdgesKept(es, id) == es

\* [edge for edge in edges if edge[0] != id]
RECURSIVE EdgesWithoutSource(_, _)
EdgesWithoutSource(es, id) ==
    IF es = <<>> THEN <<>>
    ELSE IF Head(es)[1] = id THEN EdgesWithoutSource(Tail(es), id)
         ELSE <<Head(es)>> \o EdgesWithoutSource(Tail(es), id)

\* any(mod.id() == id for mod in self.mods if mod.project_data() is not None)
IsSeed(seeds, id) == \E i \in DOMAIN seeds : seeds[i].project /\ seeds[i].slug_or_id = id

PrunableWhateverEdges(es, seeds, error) ==
    /\ error.kind = "NotFound"
    /\ error.id # None
    /\ ~IsSeed(seeds, error.id)

\* The condition of lines 321-328 under which an error is pruned.
Prunable(es, seeds, error) ==
    /\ error.kind = "NotFound"
    /\ error.id # None
    /\ \A k \in DOMAIN es : es[k][1] = error.id => es[k][3] = "optional"
    /\ ~IsSeed(seeds, error.id)

PruneIfLast(st, seeds, error) ==
    IF Prunable(st.edges, seeds, error) /\ st.errors[Len(st.errors)] = error
    THEN [errors |-> RemoveFirst(st.errors, error),
          all_mods |-> DictDel(st.all_mods, error.id),
          nodes |-> DictDel(st.nodes, error.id),
          edges |-> EdgesWithoutSource(st.edges, error.id),
          finalmsg |-> Append(st.finalmsg, [kind |-> "removed", id |-> error.id])]
    ELSE st

\* The body of the pruning loop for one error of errors.copy().
PruneOne(st, seeds, error) ==
    IF Prunable(st.edges, seeds, error)
    THEN [errors |-> RemoveFirst(st.errors, error),
          all_mods |-> DictDel(st.all_mods, error.id),
          nodes |-> DictDel(st.nodes, error.id),
          edges |-> EdgesWithoutSource(st.edges, error.id),
          finalmsg |-> Append(st.finalmsg, [kind |-> "removed", id |-> error.id])]
    ELSE st

\* for error in errors.copy(): ...
RECURSIVE PruneAll(_, _, _)
PruneAll(st, seeds, copy) ==
    IF copy = <<>> THEN st
    ELSE PruneAll(PruneOne(st, seeds, Head(copy)), seeds, Tail(copy))

\* ---- graph construction and incompatibility detection, manager.py 340-393

\* `raise ModError` of lines 346, 366 and 381: a node without attributes, or an
\* edge with an endpoint that is no node with attributes.
BuildRaises(ns, es) ==
    \/ \E i \in DOMAIN ns : ns[i].value = None
    \/ \E k \in DOMAIN es : DictGet(ns, es[k][1]) = None \/ DictGet(ns, es[k][2]) = None

\* The sinks of every edge out of u, whatever its type.
RECURSIVE TrueDepsAnyType(_, _)
TrueDepsAnyType(es, u) ==
    IF es = <<>> THEN <<>>
    ELSE IF Head(es)[1] = u
         THEN <<Head(es)[2]>> \o TrueDepsAnyType(Tail(es), u)
         ELSE TrueDepsAnyType(Tail(es), u)

\* true_deps of lines 373-384: the sinks of the edges out of u whose type is
\* neither incompatible nor embedded, in edge order.
RECURSIVE TrueDeps(_, _)
TrueDeps(es, u) ==
    IF es = <<>> THEN <<>>
    ELSE IF Head(es)[1] = u /\ Head(es)[3] \notin {"incompatible", "embedded"}
         THEN <<Head(es)[2]>> \o TrueDeps(Tail(es), u)
         ELSE TrueDeps(Tail(es), u)

NoConflicts(all, rest) == <<>>

\* The errors appended by `for u, v, attrs in edges`: one per incompatible edge.
RECURSIVE Conflicts(_, _)
Conflicts(all, rest) ==
    IF rest = <<>> THEN <<>>
    ELSE IF Head(rest)[3] = "incompatible"
         THEN <<ConflictError(Head(rest)[1], Head(rest)[2], TrueDeps(all, Head(rest)[1]))>>
                  \o Conflicts(all, Tail(rest))
         ELSE Conflicts(all, Tail(rest))


\* ---- the state before resolve_dependencies is called

\* The seed lists: distinct projects, each already through init_mod and
\* check_version (resolve_dependencies is called after both returned True).
SeedLists ==
    UNION { { l \in [1..n -> Projects] : \A i \in 1..n, j \in 1..n : i # j => l[i] # l[j] }
            : n \in 1..MaxSeeds }

SeedIds(l) == {l[i] : i \in DOMAIN l}

Count(s, x) == Cardinality({i \in DOMAIN s : s[i] = x})

ResInit ==
    /\ \E l \in SeedLists :
          /\ mods = [i \in DOMAIN l |-> ResolvedMod(l[i])]
          /\ reg = [p \in Projects |->
                      IF p \in SeedIds(l) THEN [status |-> "ok", deps |-> Unread]
                      ELSE Unknown]
          /\ entered = [p \in Projects |-> Count(l, p)]
    /\ allow_optional_mod \in BOOLEAN
    /\ pc = "for"
    /\ level = 1
    /\ mods_cur = mods
    /\ idx = 1
    /\ dep_mods = <<>>
    /\ tasks = <<>>
    /\ nodes = <<>>
    /\ edges = <<>>
    /\ errors = <<>>
    /\ all_mods = <<>>
    /\ finalmsg = <<>>
    /\ met_condition = {}
    /\ result = None

\* ---- the frontier loop, manager.py 234-316

\* One iteration of `for mod in mods_cur` (lines 239-291). mod.id() raises
\* ModError when the Mod has no project data (mod.py 169-175); version_data()
\* raises ModNotFoundError when it has no chosen version (mod.py 183-186);
\* else its "dependencies" are read and expanded.
ProcessMod ==
    /\ pc = "for"
    /\ LET mod == mods_cur[idx]
           id == mod.slug_or_id
       IN  IF ~mod.project
           THEN /\ pc' = "raised"
                /\ UNCHANGED <<reg, idx, dep_mods, nodes, edges, all_mods, met_condition>>
           ELSE /\ all_mods' = DictSet(all_mods, id, mod)
                /\ IF ~mod.version
                   THEN /\ nodes' = DictSet(nodes, id, "failed")
                        /\ UNCHANGED <<reg, dep_mods, edges, met_condition>>
                   ELSE \E deps \in DepLists(id) :
                          /\ reg[id].deps = Unread \/ reg[id].deps = deps
                          /\ reg' = [reg EXCEPT ![id].deps = deps]
                          /\ LET acc == ExpandDeps([nodes |-> DictSet(nodes, id, "resolved"),
                                                    edges |-> edges,
                                                    dep_mods |-> dep_mods,
                                                    met |-> met_condition],
                                                   allow_optional_mod, id, deps)
                             IN  /\ nodes' = acc.nodes
                                 /\ edges' = acc.edges
                                 /\ dep_mods' = acc.dep_mods
                                 /\ met_condition' = acc.met
                /\ idx' = idx + 1
                /\ pc' = IF idx = Len(mods_cur) THEN "submit" ELSE "for"
    /\ UNCHANGED <<mods, allow_optional_mod, level, mods_cur, tasks, errors,
                   finalmsg, result, entered>>

\* futures = [self.__pool.submit(init, dep_mod) for dep_mod in dep_mods]
SubmitTasks ==
    /\ pc = "submit"
    /\ tasks' = [i \in DOMAIN dep_mods |-> [state |-> "pending", error |-> NoError]]
    /\ pc' = "collect"
    /\ UNCHANGED <<reg, mods, allow_optional_mod, level, mods_cur, idx, dep_mods, nodes,
                   edges, errors, all_mods, finalmsg, met_condition, result, entered>>

\* What init(mod) leaves in the Mod (mod.py 42-127): the project data once the
\* project lookup succeeded, the chosen version once a version matched.
ModAfterInit(mod, status) ==
    [mod EXCEPT !.project = (status # "gone"), !.version = (status = "ok")]

\* The ModNotFoundError of init(mod), if any: without an id on a 404 of the
\* project lookup (mod.py 58), with the project id otherwise (mod.py 68, 76, 167).
ErrorOfInit(mod, status) ==
    CASE status = "ok" -> NoError
      [] status = "gone" -> NotFoundError(None, mod.slug_or_id)
      [] OTHER -> NotFoundError(mod.slug_or_id, mod.slug_or_id)

\* A worker runs init(dep_mod): mod.init() then mod.query_version(). The
\* registry's answer is fixed once given.
RunTask(i) ==
    /\ pc = "collect"
    /\ tasks[i].state = "pending"
    /\ LET mod == dep_mods[i]
           p == mod.slug_or_id
       IN  \E st \in Statuses :
              /\ reg[p].status = "unknown" \/ reg[p].status = st
              /\ reg' = [reg EXCEPT ![p].status = st]
              /\ dep_mods' = [dep_mods EXCEPT ![i] = ModAfterInit(mod, st)]
              /\ tasks' = [tasks EXCEPT ![i] = [state |-> "done",
                                                error |-> ErrorOfInit(mod, st)]]
    /\ UNCHANGED <<mods, allow_optional_mod, pc, level, mods_cur, idx, nodes, edges,
                   errors, all_mods, finalmsg, met_condition, result, entered>>

\* One iteration of `for future in as_completed(futures)`: a ModError is
\* appended to errors.
CollectTask(i) ==
    /\ pc = "collect"
    /\ tasks[i].state = "done"
    /\ tasks' = [tasks EXCEPT ![i].state = "collected"]
    /\ errors' = IF tasks[i].error = NoError THEN errors ELSE Append(errors, tasks[i].error)
    /\ UNCHANGED <<reg, mods, allow_optional_mod, pc, level, mods_cur, idx, dep_mods, nodes,
                   edges, all_mods, finalmsg, met_condition, result, entered>>

BarrierOpen(ts) == TRUE

\* The loop over as_completed(futures) has yielded every future of the level.
BarrierPassed(ts) == \A i \in DOMAIN ts : ts[i].state = "collected"

KeepFrontier(cur, queued) == cur

\* Line 316, `mods_cur = dep_mods`: the next frontier is what was queued.
NextFrontier(cur, queued) == queued

\* The level's barrier is passed: mods_cur = dep_mods, then the test of
\* `while mods_cur` (a new iteration resets dep_mods).
NextLevel ==
    /\ pc = "collect"
    /\ BarrierPassed(tasks)
    /\ LET frontier == NextFrontier(mods_cur, dep_mods)
       IN  /\ frontier # <<>> => level < MaxLevels
           /\ mods_cur' = frontier
           /\ level' = IF frontier # <<>> THEN level + 1 ELSE level
           /\ pc' = IF frontier # <<>> THEN "for" ELSE "prune"
           /\ entered' = [p \in Projects |->
                            entered[p] + Cardinality({i \in DOMAIN frontier :
                                                        frontier[i].slug_or_id = p})]
    /\ dep_mods' = <<>>
    /\ tasks' = <<>>
    /\ idx' = 1
    /\ UNCHANGED <<reg, mods, allow_optional_mod, nodes, edges, errors, all_mods, finalmsg,
                   met_condition, result>>

\* ---- post-processing, manager.py 320-422

\* The pruning loop over errors.copy().
Prune ==
    /\ pc = "prune"
    /\ LET st == PruneAll([errors |-> errors, all_mods |-> all_mods, nodes |-> nodes,
                           edges |-> edges, finalmsg |-> finalmsg], mods, errors)
       IN  /\ errors' = st.errors
           /\ all_mods' = st.all_mods
           /\ nodes' = st.nodes
           /\ edges' = st.edges
           /\ finalmsg' = st.finalmsg
    /\ pc' = "build"
    /\ UNCHANGED <<reg, mods, allow_optional_mod, level, mods_cur, idx, dep_mods, tasks,
                   met_condition, result, entered>>

\* `if errors: ... return False` / `return True`
ShouldContinue(errs) == errs = <<>>

\* Lines 340-422. The graph is built: a node or an edge endpoint without
\* attributes raises ModError, and every incompatible edge adds a conflict to
\* errors. Then the final messages are added and the result is returned.
BuildGraph ==
    /\ pc = "build"
    /\ IF BuildRaises(nodes, edges)
       THEN /\ pc' = "raised"
            /\ UNCHANGED <<errors, finalmsg, result>>
       ELSE LET errs == errors \o Conflicts(edges, edges)
            IN  /\ errors' = errs
                /\ result' = IF ShouldContinue(errs) THEN "True" ELSE "False"
                /\ finalmsg' = finalmsg \o <<[kind |-> "saved", id |-> None]>>
                                    \o (IF errs # <<>>
                                        THEN <<[kind |-> "errors", id |-> None],
                                               [kind |-> "legend", id |-> None]>>
                                        ELSE <<>>)
                /\ pc' = "done"
    /\ UNCHANGED <<reg, mods, allow_optional_mod, level, mods_cur, idx, dep_mods, tasks,
                   nodes, edges, all_mods, met_condition, entered>>

(***************************************************************************)
(* ModManager.download_mods (manager.py 424-548)                           *)
(***************************************************************************)

VARIABLES
    dl_mods,        \* list(self.all_mods.values()): the Mods to download
    dl_pc,          \* position of the coordinating thread
    file_data,      \* per Mod: Mod.file_data (NoFile until get_version succeeds)
    dl_tasks,       \* the futures of the current phase: state and outcome
    dl_errors,      \* the local list `errors` of the current phase
    dl_phase1_errors, \* history: the errors collected when phase 1 ended
    stream,         \* per Mod: the bytes its download streamed (None before)
    disk,           \* the download directory: filename -> content (None if absent)
    written,        \* history: the writes done, as (mod, filename, bytes)
    dl_submitted,   \* history: download tasks were submitted
    dl_finalmsg,    \* messages added to self.finalmsg
    dl_result       \* what download_mods returned

dlVars == <<dl_mods, dl_pc, file_data, dl_tasks, dl_errors, dl_phase1_errors, stream,
            disk, written, dl_submitted, dl_finalmsg, dl_result>>

\* Mods in self.all_mods when download_mods is called.
MaxMods == 2

\* Byte streams a download may deliver.
Bytes == {"x", "y"}

\* hashlib.sha512(...).hexdigest() of a byte stream: a lower-case hex string.
Sha512Hex(b) == CASE b = "x" -> "c1a5" [] b = "y" -> "7be2" [] OTHER -> "0000"

\* str.lower() on the hex strings of the model.
Lower(h) == CASE h = "C1A5" -> "c1a5" [] h = "7BE2" -> "7be2" [] OTHER -> h

\* The sha512 strings the registry may declare for a file.
DeclaredHashes == {"c1a5", "7be2", "C1A5"}

Filenames == {"a.jar", "b.jar"}

\* The first entry of "files" in the answer of GET /version/{id}.
FileEntries == [filename : Filenames, sha512 : DeclaredHashes]

\* Mod.file_data before get_version succeeded (Python's None).
NoFile == [filename |-> None, sha512 |-> None]

\* What GET /version/{id} answers: 404, no files, or a first file.
VersionDetails ==
    [status : {"gone", "nofiles"}, file : {NoFile}] \cup [status : {"ok"}, file : FileEntries]

\* all_mods in a fixed order; a Mod in it is version-resolved, or (when the
\* caller went on after a failed resolve_dependencies) has no chosen version.
DlLists ==
    UNION { { l \in [1..n -> [slug_or_id : Projects, project : {TRUE}, version : BOOLEAN]] :
                \A i \in 1..n : Rank(l[i].slug_or_id) = i }
            : n \in 1..MaxMods }

NoDlError == [kind |-> "none", mod |-> 0]

DLInit ==
    /\ dl_mods \in DlLists
    /\ dl_pc = "phase1"
    /\ file_data = [i \in DOMAIN dl_mods |-> NoFile]
    /\ dl_tasks = [i \in DOMAIN dl_mods |-> [state |-> "pending", error |-> NoDlError]]
    /\ dl_errors = <<>>
    /\ dl_phase1_errors = <<>>
    /\ stream = [i \in DOMAIN dl_mods |-> None]
    /\ disk = [f \in Filenames |-> None]
    /\ written = {}
    /\ dl_submitted = FALSE
    /\ dl_finalmsg = <<>>
    /\ dl_result = "running"

\* Mod.get_version (mod.py 129-151): ModError when the Mod is not resolved,
\* ModNotFoundError on 404 or on an empty file list, else file_data is the
\* first file.
GetVersionError(mod, detail) ==
    IF ~mod.project \/ ~mod.version THEN "ModError"
    ELSE IF detail.status # "ok" THEN "NotFound"
    ELSE "none"

\* A worker runs mod.get_version() for the i-th Mod.
RunGetVersion(i) ==
    /\ dl_pc = "phase1"
    /\ dl_tasks[i].state = "pending"
    /\ \E detail \in VersionDetails :
          LET err == GetVersionError(dl_mods[i], detail)
          IN  /\ file_data' = [file_data EXCEPT ![i] = IF err = "none" THEN detail.file ELSE @]
              /\ dl_tasks' = [dl_tasks EXCEPT ![i] =
                                [state |-> "done",
                                 error |-> IF err = "none" THEN NoDlError
                                           ELSE [kind |-> err, mod |-> i]]]
    /\ UNCHANGED <<dl_mods, dl_pc, dl_errors, dl_phase1_errors, stream, disk, written,
                   dl_submitted, dl_finalmsg, dl_result>>

\* One iteration of `for future in as_completed(futures)`, in either phase:
\* ModError (phase 1 and 2) and ValueError (phase 2) are appended to errors.
CollectDl(i) ==
    /\ dl_pc \in {"phase1", "phase2"}
    /\ dl_tasks[i].state = "done"
    /\ dl_tasks' = [dl_tasks EXCEPT ![i].state = "collected"]
    /\ dl_errors' = IF dl_tasks[i].error = NoDlError THEN dl_errors
                    ELSE Append(dl_errors, dl_tasks[i].error)
    /\ UNCHANGED <<dl_mods, dl_pc, file_data, dl_phase1_errors, stream, disk, written,
                   dl_submitted, dl_finalmsg, dl_result>>

GateNever(errs) == FALSE

\* `if errors:` of line 460: phase 1 collected an error.
GateHalts(errs) == errs # <<>>

\* Lines 460-467 and 522: after phase 1, return False when an error was
\* collected; else reset errors and submit one download task per Mod.
Gate ==
    /\ dl_pc = "phase1"
    /\ \A i \in DOMAIN dl_tasks : dl_tasks[i].state = "collected"
    /\ dl_phase1_errors' = dl_errors
    /\ IF GateHalts(dl_errors)
       THEN /\ dl_finalmsg' = Append(dl_finalmsg, [kind |-> "errors", errors |-> dl_errors])
            /\ dl_result' = "False"
            /\ dl_pc' = "done"
            /\ UNCHANGED <<dl_errors, dl_tasks, dl_submitted>>
       ELSE /\ dl_errors' = <<>>
            /\ dl_tasks' = [i \in DOMAIN dl_mods |-> [state |-> "pending", error |-> NoDlError]]
            /\ dl_submitted' = TRUE
            /\ dl_pc' = "phase2"
            /\ UNCHANGED <<dl_finalmsg, dl_result>>
    /\ UNCHANGED <<dl_mods, file_data, stream, disk, written>>

HashAlwaysOk(b, declared) == TRUE

\* The negation of line 507: hasher.hexdigest().lower() == declared sha512.
HashOk(b, declared) == Lower(Sha512Hex(b)) = declared

\* A worker runs download(mod) (lines 485-519) for the i-th Mod: the bytes are
\* streamed into a buffer and hashed; on a mismatch ValueError is raised and
\* nothing is written, else the buffer is written to mod_path / filename.
RunDownload(i) ==
    /\ dl_pc = "phase2"
    /\ dl_tasks[i].state = "pending"
    /\ IF file_data[i] = NoFile
       THEN /\ dl_tasks' = [dl_tasks EXCEPT ![i] =
                              [state |-> "done", error |-> [kind |-> "ModError", mod |-> i]]]
            /\ UNCHANGED <<stream, disk, written>>
       ELSE \E b \in Bytes :
              /\ stream' = [stream EXCEPT ![i] = b]
              /\ IF HashOk(b, file_data[i].sha512)
                 THEN /\ disk' = [disk EXCEPT ![file_data[i].filename] = b]
                      /\ written' = written \cup
                            {[mod |-> i, filename |-> file_data[i].filename, bytes |-> b]}
                      /\ dl_tasks' = [dl_tasks EXCEPT ![i] =
                                        [state |-> "done", error |-> NoDlError]]
                 ELSE /\ dl_tasks' = [dl_tasks EXCEPT ![i] =
                                        [state |-> "done",
                                         error |-> [kind |-> "ValueError", mod |-> i]]]
                      /\ UNCHANGED <<disk, written>>
    /\ UNCHANGED <<dl_mods, dl_pc, file_data, dl_errors, dl_phase1_errors, dl_submitted,
                   dl_finalmsg, dl_result>>

UntilFirstError(ts) ==
    \/ \A i \in DOMAIN ts : ts[i].state = "collected"
    \/ \E i \in DOMAIN ts : ts[i].state = "collected" /\ ts[i].error # NoDlError

\* The loop of lines 525-541 ends when as_completed has yielded every future;
\* a ValueError or ModError of one future is appended and the loop goes on.
DownloadsOver(ts) == \A i \in DOMAIN ts : ts[i].state = "collected"

\* Lines 543-548: after phase 2, return False when an error was collected;
\* else the function ends without a return statement (None).
FinishDownload ==
    /\ dl_pc = "phase2"
    /\ DownloadsOver(dl_tasks)
    /\ IF dl_errors # <<>>
       THEN /\ dl_finalmsg' = Append(dl_finalmsg, [kind |-> "errors", errors |-> dl_errors])
            /\ dl_result' = "False"
       ELSE /\ dl_result' = None
            /\ UNCHANGED dl_finalmsg
    /\ dl_pc' = "done"
    /\ UNCHANGED <<dl_mods, file_data, dl_tasks, dl_errors, dl_phase1_errors, stream, disk,
                   written, dl_submitted>>

\* download_mods not called.
DLIdle ==
    /\ dl_mods = <<>>
    /\ dl_pc = "idle"
    /\ file_data = <<>>
    /\ dl_tasks = <<>>
    /\ dl_errors = <<>>
    /\ dl_phase1_errors = <<>>
    /\ stream = <<>>
    /\ disk = [f \in Filenames |-> None]
    /\ written = {}
    /\ dl_submitted = FALSE
    /\ dl_finalmsg = <<>>
    /\ dl_result = "running"

\* resolve_dependencies not called.
ResIdle ==
    /\ reg = [p \in Projects |-> Unknown]
    /\ mods = <<>>
    /\ allow_optional_mod = FALSE
    /\ pc = "idle"
    /\ level = 0
    /\ mods_cur = <<>>
    /\ idx = 1
    /\ dep_mods = <<>>
    /\ tasks = <<>>
    /\ nodes = <<>>
    /\ edges = <<>>
    /\ errors = <<>>
    /\ all_mods = <<>>
    /\ finalmsg = <<>>
    /\ met_condition = {}
    /\ result = None
    /\ entered = [p \in Projects |-> 0]

(***************************************************************************)
(* Mod.__init__ (mod.py 27-40)                                             *)
(***************************************************************************)

VARIABLES
    url,            \* the argument of Mod(url): a sequence of characters
    made            \* the outcome of Mod(url): NotCalled, a Mod, or SlugNotValid

newVars == <<url, made>>

\* Characters of the model: a word character, a punctuation character of the
\* slug grammar, the separator '/', a line feed and a space.
WordChars == {"a"}
SlugPunctuation == {"!"}
Slash == "/"
LineFeed == "LF"
Alphabet == WordChars \cup SlugPunctuation \cup {Slash, LineFeed, " "}

\* The quantifier {3,64} of the regular expression.
MinSlugLen == 3
MaxSlugLen == 64

\* The longest run of word characters in a modelled argument.
MaxBody == 66

\* [\w!@$()`.+,"\-']
InSlugClass(c) == c \in WordChars \cup SlugPunctuation

\* The arguments: an optional path prefix, a run of word characters, and an
\* optional last character.
Repeat(c, n) == [i \in 1..n |-> c]

UrlPrefixes == {<<>>, <<"a", Slash>>}

UrlSuffixes == {<<>>} \cup {<<c>> : c \in Alphabet}

Urls == {pre \o Repeat("a", n) \o suf : pre \in UrlPrefixes, n \in 0..MaxBody, suf \in UrlSuffixes}

\* The slug grammar: 3 to 64 characters, each of the character class.
MatchesSlugGrammar(str) ==
    /\ Len(str) >= MinSlugLen
    /\ Len(str) <= MaxSlugLen
    /\ \A i \in DOMAIN str : InSlugClass(str[i])

\* url.split("/")[-1]: what follows the last '/'.
RECURSIVE LastSegment(_)
LastSegment(str) ==
    IF \E i \in DOMAIN str : str[i] = Slash
    THEN LastSegment(Tail(str))
    ELSE str

\* re.search(r"^[...]{3,64}$", str): without re.MULTILINE `$` matches at the
\* end of the string and also just before a line feed that ends the string.
ReSearchSlug(str) ==
    \/ MatchesSlugGrammar(str)
    \/ /\ str # <<>>
       /\ str[Len(str)] = LineFeed
       /\ MatchesSlugGrammar(SubSeq(str, 1, Len(str) - 1))

NotCalled == [kind |-> "NotCalled", slug_or_id |-> <<>>]

SlugNotValid(bad_slug) == [kind |-> "SlugNotValid", slug_or_id |-> bad_slug]

NewInit ==
    /\ url \in Urls
    /\ made = NotCalled

\* Mod(url)
Construct ==
    /\ made = NotCalled
    /\ LET slug_or_id == LastSegment(url)
       IN  made' = IF ReSearchSlug(slug_or_id)
                   THEN [kind |-> "Mod", slug_or_id |-> slug_or_id]
                   ELSE SlugNotValid(slug_or_id)
    /\ UNCHANGED url

\* Mod(url) not called.
NewIdle ==
    /\ url = <<>>
    /\ made = NotCalled

(***************************************************************************)
(* A phase of the ModManager on its thread pool: init_mod (manager.py      *)
(* 92-139) and check_version (manager.py 141-182)                          *)
(***************************************************************************)

VARIABLES
    ph_kind,        \* which phase runs: "init_mod" or "check_version"
    ph_pc,          \* position of the calling thread
    ph_tasks,       \* the futures, in submission order: state and outcome
    ph_errors,      \* the local list `errors`
    ph_finalmsg,    \* messages the phase added to self.finalmsg
    ph_result,      \* what the phase returned: "True", "False", or None before
    ph_late         \* history: tasks that began to run after a transport
                    \* error was observed by the calling thread

phVars == <<ph_kind, ph_pc, ph_tasks, ph_errors, ph_finalmsg, ph_result, ph_late>>

\* Worker threads of the pool (ThreadPoolExecutor(threads)).
Threads == 2
\* Mods in self.mods: one task each.
MaxTasks == 3

\* How a task ends: normally, with a ModError (a domain error), or with
\* another exception (requests' HTTPError or ConnectionError).
Outcomes == {"ok", "ModError", "Transport"}

PhaseKinds == {"init_mod", "check_version"}

\* futures = [self.__pool.submit(...) for mod in self.mods]: every task is
\* queued at once, in the order of self.mods.
PhaseInit ==
    /\ ph_kind \in PhaseKinds
    /\ ph_pc = "as_completed"
    /\ \E n \in 1..MaxTasks :
          ph_tasks = [i \in 1..n |-> [state |-> "queued", outcome |-> None, seen |-> 0]]
    /\ ph_errors = <<>>
    /\ ph_finalmsg = <<>>
    /\ ph_result = None
    /\ ph_late = {}

Running(ts) == {i \in DOMAIN ts : ts[i].state = "running"}

Queued(ts) == {i \in DOMAIN ts : ts[i].state = "queued"}

\* A worker thread takes the oldest queued work item. The pool's queue is
\* served until it is empty, also after shutdown() was called: shutdown()
\* without cancel_futures cancels nothing. `seen` records how many domain
\* errors the calling thread had collected when the task began.
StartTask(i) ==
    /\ ph_pc \in {"as_completed", "shutdown"}
    /\ Cardinality(Running(ph_tasks)) < Threads
    /\ i \in Queued(ph_tasks)
    /\ \A j \in Queued(ph_tasks) : i <= j
    /\ ph_tasks' = [ph_tasks EXCEPT ![i].state = "running", ![i].seen = Len(ph_errors)]
    /\ ph_late' = IF ph_pc = "shutdown" THEN ph_late \cup {i} ELSE ph_late
    /\ UNCHANGED <<ph_kind, ph_pc, ph_errors, ph_finalmsg, ph_result>>

\* The task ends: mod.init(...) or mod.query_version(...) returned or raised.
FinishTask(i) ==
    /\ ph_tasks[i].state = "running"
    /\ \E o \in Outcomes :
          ph_tasks' = [ph_tasks EXCEPT ![i].state = "finished", ![i].outcome = o]
    /\ UNCHANGED <<ph_kind, ph_pc, ph_errors, ph_finalmsg, ph_result, ph_late>>

\* One iteration of `for future in as_completed(futures)`: a ModError is
\* appended to errors; on any other exception the calling thread calls
\* progress.stop() and self.__pool.shutdown().
CollectPhase(i) ==
    /\ ph_pc = "as_completed"
    /\ ph_tasks[i].state = "finished"
    /\ ph_tasks' = [ph_tasks EXCEPT ![i].state = "collected"]
    /\ ph_errors' = IF ph_tasks[i].outcome = "ModError"
                    THEN Append(ph_errors, i) ELSE ph_errors
    /\ ph_pc' = IF ph_tasks[i].outcome = "Transport" THEN "shutdown" ELSE "as_completed"
    /\ UNCHANGED <<ph_kind, ph_finalmsg, ph_result, ph_late>>

\* shutdown() (wait=True) returns once no work item is queued or running;
\* then `raise` re-raises the exception to the caller.
ShutdownAndRaise ==
    /\ ph_pc = "shutdown"
    /\ \A i \in DOMAIN ph_tasks : ph_tasks[i].state \in {"finished", "collected"}
    /\ ph_pc' = "raised"
    /\ UNCHANGED <<ph_kind, ph_tasks, ph_errors, ph_finalmsg, ph_result, ph_late>>

PhaseNeverHalts(errs) == FALSE

\* `if errors:` of lines 133 and 176.
PhaseHalts(errs) == errs # <<>>

\* The loop over as_completed ended: return False with the errors added to
\* finalmsg, or return True.
ReturnPhase ==
    /\ ph_pc = "as_completed"
    /\ \A i \in DOMAIN ph_tasks : ph_tasks[i].state = "collected"
    /\ IF PhaseHalts(ph_errors)
       THEN /\ ph_finalmsg' = Append(ph_finalmsg, [kind |-> "errors", errors |-> ph_errors])
            /\ ph_result' = "False"
       ELSE /\ ph_result' = "True"
            /\ UNCHANGED ph_finalmsg
    /\ ph_pc' = "returned"
    /\ UNCHANGED <<ph_kind, ph_tasks, ph_errors, ph_late>>

\* No phase is running.
PhaseIdle ==
    /\ ph_kind = None
    /\ ph_pc = "idle"
    /\ ph_tasks = <<>>
    /\ ph_errors = <<>>
    /\ ph_finalmsg = <<>>
    /\ ph_result = None
    /\ ph_late = {}

(***************************************************************************)
(* The life of one Mod: init, query_version and the accessors (mod.py      *)
(* 42-127, 153-192, 219-232)                                               *)
(***************************************************************************)

VARIABLES
    m_project,      \* Mod.__project (NoProject for None)
    m_version,      \* Mod.__current_version (NoVersion for None)
    m_target,       \* __target_version and __target_loader are set
    m_calls,        \* calls of init and query_version made so far
    m_last,         \* the last call: the method, how it ended, what it returned
    m_args,         \* the last call of init: its require flags, the registry's
                    \* answer, and __project before the call
    m_init_ok,      \* history: a call of init returned normally
    m_query_ok      \* history: a call of query_version returned normally

modVars == <<m_project, m_version, m_target, m_calls, m_last, m_args, m_init_ok, m_query_ok>>

\* Calls of init and query_version on one Mod.
MaxModCalls == 2
\* Entries of the version list the registry answers with.
MaxVersions == 2
\* Raw dependency descriptors of a version in this machine.
MaxDescriptors == 2

\* The arguments of init: the target game version and loader.
TargetVersion == "1.20.1"
TargetLoader == "forge"

\* The project the registry knows the Mod's slug by.
ProjectId == "P"

\* client_side / server_side of the project data.
Sides == {"required", "optional", "unsupported", "unknown"}

NoProject == [id |-> None, client_side |-> None, server_side |-> None]

\* The answers to GET /project/{slug_or_id}: 404, another non-200 status, or
\* 200 with the project data.
ProjectAnswers ==
    [status : {404, 500}, project : {NoProject}]
        \cup [status : {200}, project : [id : {ProjectId}, client_side : Sides, server_side : Sides]]

\* A raw dependency descriptor: version_id and project_id may both be present,
\* or one of them, or neither (a dependency known by its file name only).
RawDescriptors ==
    [version_id : {None, "V"}, project_id : {None, "D"}, dependency_type : {"required"}]

RawDescriptorLists == UNION {[1..n -> RawDescriptors] : n \in 0..MaxDescriptors}

GameVersionLists == {{}, {TargetVersion}, {"1.21"}, {TargetVersion, "1.21"}}

LoaderLists == {{TargetLoader}, {"fabric"}, {TargetLoader, "fabric"}}

\* The entries of a version list without their dependencies.
VersionHeads == [game_versions : GameVersionLists, loaders : LoaderLists]

NoVersion == [id |-> 0, game_versions |-> {}, loaders |-> {}, dependencies |-> <<>>]

\* The version lists: the i-th entry has id i, and the entries of one list
\* carry the same dependency descriptors.
VersionLists ==
    {[i \in 1..n |-> [id |-> i, game_versions |-> h[i].game_versions,
                      loaders |-> h[i].loaders, dependencies |-> ds]] :
        n \in 0..MaxVersions, h \in [1..MaxVersions -> VersionHeads], ds \in RawDescriptorLists}

\* The answers to GET /project/{id}/version.
VersionAnswers ==
    [status : {404, 500}, versions : {<<>>}] \cup [status : {200}, versions : VersionLists]

\* What a call left behind: the method, how it ended ("value" when it
\* returned, else the exception's class), the except_mod_id of a
\* ModNotFoundError, the value returned by dependencies(), and for
\* query_version the registry's answer and the chosen version before the call.
Call(op, ret, id, value, answer, before) ==
    [op |-> op, ret |-> ret, id |-> id, value |-> value, answer |-> answer, before |-> before]

NoAnswer == [status |-> 0, versions |-> <<>>]

NoCall == Call("none", "value", None, <<>>, NoAnswer, NoVersion)

\* No call of init was made.
NoInitCall ==
    [require_client |-> FALSE, require_server |-> FALSE,
     answer |-> [status |-> 0, project |-> NoProject], before |-> NoProject]

ModInit ==
    /\ m_project = NoProject
    /\ m_version = NoVersion
    /\ m_target = FALSE
    /\ m_calls = 0
    /\ m_last = NoCall
    /\ m_args = NoInitCall
    /\ m_init_ok = FALSE
    /\ m_query_ok = FALSE

InitEndsWhateverFlags(answer, require_client, require_server) ==
    CASE answer.status = 404 -> "ModNotFoundError"
      [] answer.status # 200 -> "HTTPError"
      [] answer.project.client_side = "unsupported" -> "ModNotFoundError"
      [] answer.project.server_side = "unsupported" -> "ModNotFoundError"
      [] OTHER -> "value"

\* How init ends on the answer of the registry (mod.py 57-86): on 404 a
\* ModNotFoundError that carries the project id known so far; on another
\* non-200 status the HTTPError of raise_for_status(); on 200 a
\* ModNotFoundError when a required side is unsupported, else it returns.
InitEnds(answer, require_client, require_server) ==
    CASE answer.status = 404 -> "ModNotFoundError"
      [] answer.status # 200 -> "HTTPError"
      [] require_client /\ answer.project.client_side = "unsupported" -> "ModNotFoundError"
      [] require_server /\ answer.project.server_side = "unsupported" -> "ModNotFoundError"
      [] OTHER -> "value"

\* mod.init(game_version, loader, require_client, require_server)
CallInit ==
    /\ m_calls < MaxModCalls
    /\ m_calls' = m_calls + 1
    /\ m_target' = TRUE
    /\ \E answer \in ProjectAnswers, require_client \in BOOLEAN, require_server \in BOOLEAN :
          LET ends == InitEnds(answer, require_client, require_server)
              project == IF answer.status = 200 THEN answer.project ELSE m_project
          IN  /\ m_project' = project
              /\ m_init_ok' = (m_init_ok \/ ends = "value")
              /\ m_last' = Call("init", ends,
                                IF ends = "ModNotFoundError" THEN project.id ELSE None,
                                <<>>, NoAnswer, m_version)
              /\ m_args' = [require_client |-> require_client,
                            require_server |-> require_server,
                            answer |-> answer, before |-> m_project]
    /\ UNCHANGED <<m_version, m_query_ok>>

\* The loop of mod.py 114-127: the position of the first entry whose
\* game_versions hold the target version and whose loaders hold the target
\* loader; 0 when the loop ends without a break.
RECURSIVE FirstMatchFrom(_, _)
FirstMatchFrom(versions, k) ==
    IF k > Len(versions) THEN 0
    ELSE IF TargetVersion \in versions[k].game_versions /\ TargetLoader \in versions[k].loaders
         THEN k
         ELSE FirstMatchFrom(versions, k + 1)

FirstMatch(versions) == FirstMatchFrom(versions, 1)

\* The last matching entry instead of the first.
ChooseLast(versions) ==
    LET ms == {k \in DOMAIN versions : /\ TargetVersion \in versions[k].game_versions
                                       /\ TargetLoader \in versions[k].loaders}
    IN  IF ms = {} THEN 0 ELSE CHOOSE k \in ms : \A j \in ms : j <= k

\* Which entry query_version stores in __current_version.
ChosenEntry(versions) == FirstMatch(versions)

\* mod.query_version(): target_loader() and id() raise ModError on a Mod
\* without targets or project data; 404 and a list without a match raise the
\* ModNotFoundError of __not_found, which carries self.id().
CallQueryVersion ==
    /\ m_calls < MaxModCalls
    /\ m_calls' = m_calls + 1
    /\ IF ~m_target \/ m_project = NoProject
       THEN /\ m_last' = Call("query_version", "ModError", None, <<>>, NoAnswer, m_version)
            /\ UNCHANGED <<m_version, m_query_ok>>
       ELSE \E answer \in VersionAnswers :
              LET k == IF answer.status = 200 THEN ChosenEntry(answer.versions) ELSE 0
                  ends == CASE answer.status = 404 -> "ModNotFoundError"
                            [] answer.status # 200 -> "HTTPError"
                            [] k = 0 -> "ModNotFoundError"
                            [] OTHER -> "value"
              IN  /\ m_version' = IF ends = "value" THEN answer.versions[k] ELSE m_version
                  /\ m_query_ok' = (m_query_ok \/ ends = "value")
                  /\ m_last' = Call("query_version", ends,
                                    IF ends = "ModNotFoundError" THEN m_project.id ELSE None,
                                    <<>>, answer, m_version)
    /\ UNCHANGED <<m_project, m_target, m_args, m_init_ok>>

\* project_data() (mod.py 169-172), behind id(), slug() and title().
ProjectDataEnds == IF m_project = NoProject THEN "ModError" ELSE "value"

\* version_data() (mod.py 183-186): without a chosen version it raises what
\* __not_found raises, a ModNotFoundError, or the ModError of title() and
\* target_version() on a Mod without project data or targets.
VersionDataEnds ==
    IF m_version # NoVersion THEN "value"
    ELSE IF m_project = NoProject \/ ~m_target THEN "ModError"
    ELSE "ModNotFoundError"

\* A descriptor from which generate_dep can build a Dep.
Usable(data) == data.version_id # None \/ data.project_id # None

\* generate_dep(data) for a usable descriptor (mod.py 219-232).
GenerateDep(data) ==
    IF data.version_id # None
    THEN [class |-> "VerDep", id |-> data.version_id, dep_type |-> data.dependency_type]
    ELSE [class |-> "ModDep", id |-> data.project_id, dep_type |-> data.dependency_type]

\* list(map(generate_dep, ...)) ends with the ModError of generate_dep when a
\* descriptor has neither a version id nor a project id.
DependenciesEnds ==
    IF VersionDataEnds # "value" THEN VersionDataEnds
    ELSE IF \E i \in DOMAIN m_version.dependencies : ~Usable(m_version.dependencies[i])
         THEN "ModError"
         ELSE "value"

ProjectAccessors == {"id", "title", "slug"}

VersionAccessors == {"version_data", "version"}

Accessors == ProjectAccessors \cup VersionAccessors \cup {"dependencies"}

AccessorEnds(op) ==
    CASE op \in ProjectAccessors -> ProjectDataEnds
      [] op \in VersionAccessors -> VersionDataEnds
      [] OTHER -> DependenciesEnds

\* A call of one of the accessors.
CallAccessor(op) ==
    /\ m_last' = Call(op, AccessorEnds(op),
                      IF AccessorEnds(op) = "ModNotFoundError" THEN m_project.id ELSE None,
                      IF op = "dependencies" /\ AccessorEnds(op) = "value"
                      THEN [i \in DOMAIN m_version.dependencies |->
                              GenerateDep(m_version.dependencies[i])]
                      ELSE <<>>,
                      NoAnswer, m_version)
    /\ UNCHANGED <<m_project, m_version, m_target, m_calls, m_args, m_init_ok, m_query_ok>>

\* No Mod is followed.
ModIdle ==
    /\ m_project = NoProject
    /\ m_version = NoVersion
    /\ m_target = FALSE
    /\ m_calls = 0
    /\ m_last = NoCall
    /\ m_args = NoInitCall
    /\ m_init_ok = FALSE
    /\ m_query_ok = FALSE

(***************************************************************************)
(* The ModManager context under get_mod (manager.py 75-90, example.py      *)
(* 28-47): a phase runs inside `with ModManager(...) as mm`, and the main   *)
(* thread may receive a KeyboardInterrupt                                  *)
(***************************************************************************)

VARIABLES
    cx_pc,          \* position of the main thread
    cx_tasks,       \* the futures of the phase: "queued", "running", ended "ok" or
                    \* with "ModError", or "collected" by the main thread
    cx_errors,      \* the ModErrors the main thread has collected
    cx_finalmsg,    \* self.finalmsg: the buffered final messages
    cx_printed,     \* what console.print has printed, in order
    cx_pool,        \* the pool: "open", or "shut" once shutdown() returned
    cx_exc,         \* the exception that left the with block (None: none)
    cx_finishes,    \* calls of finish() that returned
    cx_added,       \* history: every message appended to self.finalmsg
    cx_late         \* history: submissions made after the interrupt

cxVars == <<cx_pc, cx_tasks, cx_errors, cx_finalmsg, cx_printed, cx_pool, cx_exc,
            cx_finishes, cx_added, cx_late>>

\* The state after __enter__ (self.finalmsg = []) and `mm.mods = mods`, when
\* init_mod is called.
CtxInit ==
    /\ cx_pc = "submit"
    /\ cx_tasks = <<>>
    /\ cx_errors = 0
    /\ cx_finalmsg = <<>>
    /\ cx_printed = <<>>
    /\ cx_pool = "open"
    /\ cx_exc = None
    /\ cx_finishes = 0
    /\ cx_added = <<>>
    /\ cx_late = 0

\* futures = [self.__pool.submit(...) for mod in self.mods]
CtxSubmit ==
    /\ cx_pc = "submit"
    /\ \E n \in 1..MaxTasks : cx_tasks' = [i \in 1..n |-> "queued"]
    /\ cx_late' = IF cx_exc # None THEN cx_late + 1 ELSE cx_late
    /\ cx_pc' = "as_completed"
    /\ UNCHANGED <<cx_errors, cx_finalmsg, cx_printed, cx_pool, cx_exc, cx_finishes, cx_added>>

\* The work items of the pool that are queued or running.
Unfinished(ts) == {i \in DOMAIN ts : ts[i] \in {"queued", "running"}}

\* A worker thread takes the oldest queued work item; the workers go on
\* whatever the main thread does.
CtxWorkStart(i) ==
    /\ cx_tasks[i] = "queued"
    /\ \A j \in DOMAIN cx_tasks : cx_tasks[j] = "queued" => i <= j
    /\ Cardinality({j \in DOMAIN cx_tasks : cx_tasks[j] = "running"}) < Threads
    /\ cx_tasks' = [cx_tasks EXCEPT ![i] = "running"]
    /\ UNCHANGED <<cx_pc, cx_errors, cx_finalmsg, cx_printed, cx_pool, cx_exc, cx_finishes,
                   cx_added, cx_late>>

\* A work item ends in its worker thread, normally or with a ModError.
CtxWorkDone(i) ==
    /\ cx_tasks[i] = "running"
    /\ \E o \in {"ok", "ModError"} : cx_tasks' = [cx_tasks EXCEPT ![i] = o]
    /\ UNCHANGED <<cx_pc, cx_errors, cx_finalmsg, cx_printed, cx_pool, cx_exc, cx_finishes,
                   cx_added, cx_late>>

\* One iteration of `for future in as_completed(futures)`.
CtxCollect(i) ==
    /\ cx_pc = "as_completed"
    /\ cx_tasks[i] \in {"ok", "ModError"}
    /\ cx_tasks' = [cx_tasks EXCEPT ![i] = "collected"]
    /\ cx_errors' = IF cx_tasks[i] = "ModError" THEN cx_errors + 1 ELSE cx_errors
    /\ UNCHANGED <<cx_pc, cx_finalmsg, cx_printed, cx_pool, cx_exc, cx_finishes, cx_added,
                   cx_late>>

\* The loop over as_completed(futures) has yielded every future.
CtxLoopEnds ==
    /\ cx_pc = "as_completed"
    /\ \A i \in DOMAIN cx_tasks : cx_tasks[i] = "collected"
    /\ cx_pc' = IF cx_errors > 0 THEN "append" ELSE "return"
    /\ UNCHANGED <<cx_tasks, cx_errors, cx_finalmsg, cx_printed, cx_pool, cx_exc, cx_finishes,
                   cx_added, cx_late>>

\* self.finalmsg.append(e_tree)
CtxAppendErrors ==
    /\ cx_pc = "append"
    /\ cx_finalmsg' = Append(cx_finalmsg, [kind |-> "errors", errors |-> cx_errors])
    /\ cx_added' = Append(cx_added, [kind |-> "errors", errors |-> cx_errors])
    /\ cx_pc' = "return"
    /\ UNCHANGED <<cx_tasks, cx_errors, cx_printed, cx_pool, cx_exc, cx_finishes, cx_late>>

\* init_mod returns its boolean to exhaust(), whose next() on a value that is
\* no generator raises TypeError (example.py 9-15, 32): the with block is left.
CtxReturn ==
    /\ cx_pc = "return"
    /\ cx_exc' = "TypeError"
    /\ cx_pc' = "exit"
    /\ UNCHANGED <<cx_tasks, cx_errors, cx_finalmsg, cx_printed, cx_pool, cx_finishes,
                   cx_added, cx_late>>

\* KeyboardInterrupt is raised in the main thread while the phase runs; no
\* `except Exception` catches it, and the with block is left.
CtxInterrupt ==
    /\ cx_pc \in {"submit", "as_completed", "append", "return"}
    /\ cx_exc' = "KeyboardInterrupt"
    /\ cx_pc' = "exit"
    /\ UNCHANGED <<cx_tasks, cx_errors, cx_finalmsg, cx_printed, cx_pool, cx_finishes,
                   cx_added, cx_late>>

\* finish() is running: called by __exit__ (manager.py 80) or by the handler
\* of KeyboardInterrupt (example.py 44).
InFinish == cx_pc \in {"exit", "handler"}

\* self.__pool.shutdown(): returns once no work item is queued or running.
CtxShutdown ==
    /\ InFinish
    /\ cx_pool = "open"
    /\ Unfinished(cx_tasks) = {}
    /\ cx_pool' = "shut"
    /\ UNCHANGED <<cx_pc, cx_tasks, cx_errors, cx_finalmsg, cx_printed, cx_exc, cx_finishes,
                   cx_added, cx_late>>

BufferKept(msgs) == msgs

\* self.finalmsg = [] after the messages were printed.
BufferAfterPrint(msgs) == <<>>

\* The rest of finish(): every buffered message is printed, the buffer is
\* emptied. __exit__ returns False, so the exception goes on to get_mod's
\* handlers: KeyboardInterrupt calls mm.finish() again and then sys.exit(1);
\* another exception is printed.
CtxPrint ==
    /\ InFinish
    /\ cx_pool = "shut"
    /\ cx_printed' = cx_printed \o cx_finalmsg
    /\ cx_finalmsg' = BufferAfterPrint(cx_finalmsg)
    /\ cx_finishes' = cx_finishes + 1
    /\ cx_pc' = IF cx_pc = "exit" /\ cx_exc = "KeyboardInterrupt" THEN "handler" ELSE "exited"
    /\ UNCHANGED <<cx_tasks, cx_errors, cx_pool, cx_exc, cx_added, cx_late>>

\* No ModManager context is entered.
CtxIdle ==
    /\ cx_pc = "idle"
    /\ cx_tasks = <<>>
    /\ cx_errors = 0
    /\ cx_finalmsg = <<>>
    /\ cx_printed = <<>>
    /\ cx_pool = "open"
    /\ cx_exc = None
    /\ cx_finishes = 0
    /\ cx_added = <<>>
    /\ cx_late = 0

(***************************************************************************)
(* The expand rule of resolve_dependencies on its own (manager.py          *)
(* 266-291): the loop `for dep in deps` over the raw descriptors of one     *)
(* processed mod, for any descriptors the registry may answer with          *)
(***************************************************************************)

VARIABLES
    ex_parent,      \* mod.id() of the processed mod
    ex_allow,       \* allow_optional_mod
    ex_deps,        \* the descriptors of deps the loop has not reached yet
    ex_acc,         \* nodes, edges, dep_mods and self.met_condition
    ex_seen         \* history: the descriptors examined, and what each one did

exVars == <<ex_parent, ex_allow, ex_deps, ex_acc, ex_seen>>

\* Raw descriptors of the processed mod's chosen version.
MaxExpand == 2

\* A version id of the registry.
VersionIds == {"V"}

\* A raw descriptor as the registry answers it: "project_id" and "version_id"
\* may each be null.
ExDescriptors ==
    [project_id : Projects \cup {None}, version_id : VersionIds \cup {None},
     dependency_type : DepTypes]

ExDepLists == UNION {[1..n -> ExDescriptors] : n \in 0..MaxExpand}

\* The node map with the given ids known, the processed mod among them
\* (line 257 precedes the loop).
RECURSIVE NodesOf(_)
NodesOf(ids) ==
    IF ids = {} THEN <<>>
    ELSE LET p == CHOOSE q \in ids : \A r \in ids : Rank(q) <= Rank(r)
         IN  <<[key |-> p, value |-> "resolved"]>> \o NodesOf(ids \ {p})

ExpandInit ==
    /\ ex_parent = "A"
    /\ ex_allow \in BOOLEAN
    /\ ex_deps \in ExDepLists
    /\ \E known \in SUBSET (Projects \ {"A"}) :
          ex_acc = [nodes |-> NodesOf(known \cup {"A"}), edges |-> <<>>, dep_mods |-> <<>>,
                    met |-> {}]
    /\ ex_seen = <<>>

\* One iteration of `for dep in deps` (lines 270-291).
ExpandStep ==
    /\ ex_deps # <<>>
    /\ LET dep == Head(ex_deps)
           acc == ExpandDep(ex_acc, ex_allow, ex_parent, dep)
       IN  /\ ex_acc' = acc
           /\ ex_seen' = Append(ex_seen,
                                [dep |-> dep,
                                 existed |-> ModAlreadyExists(ex_acc.nodes, dep.project_id),
                                 edge |-> Len(acc.edges) - Len(ex_acc.edges),
                                 queued |-> Len(acc.dep_mods) - Len(ex_acc.dep_mods)])
    /\ ex_deps' = Tail(ex_deps)
    /\ UNCHANGED <<ex_parent, ex_allow>>

\* No dependency list is being expanded.
ExpandIdle ==
    /\ ex_parent = None
    /\ ex_allow = FALSE
    /\ ex_deps = <<>>
    /\ ex_acc = [nodes |-> <<>>, edges |-> <<>>, dep_mods |-> <<>>, met |-> {}]
    /\ ex_seen = <<>>


(***************************************************************************)
(* The worker tasks of a run: the phases of one ModManager called one      *)
(* after another on the calling thread, each submitting one task per Mod   *)
(* to the shared pool (manager.py 115-131, 158-174, 293-313, 441-457,      *)
(* 521-541)                                                                *)
(***************************************************************************)

VARIABLES
    rn_seeds,       \* len(self.mods): the Mod instances 1..rn_seeds
    rn_made,        \* Mod instances in existence: the seeds, then the Mod(...) of line 291
    rn_pc,          \* position of the calling thread
    rn_kind,        \* the phase the calling thread is in
    rn_calls,       \* submitting loops started so far
    rn_tasks        \* the work items of the pool that are not yet collected and dropped

rnVars == <<rn_seeds, rn_made, rn_pc, rn_kind, rn_calls, rn_tasks>>

\* Mod instances of a run, and submitting loops the model follows.
MaxInstances == 3
MaxRunCalls == 3

\* The loops that submit tasks: init_mod, check_version, one level of
\* resolve_dependencies, and the two phases of download_mods.
RunKinds == {"init_mod", "check_version", "resolve_level", "get_version", "download"}

\* The Mods a loop submits a task for: self.mods, the level's new dep_mods,
\* or self.all_mods.values().
TaskMods(kind, seeds, known, fresh) ==
    CASE kind \in {"init_mod", "check_version"} -> 1..seeds
      [] kind = "resolve_level" -> (known + 1)..(known + fresh)
      [] OTHER -> 1..known

RunInit ==
    /\ rn_seeds \in 1..(MaxInstances - 1)
    /\ rn_made = rn_seeds
    /\ rn_pc = "caller"
    /\ rn_kind = None
    /\ rn_calls = 0
    /\ rn_tasks = <<>>

\* futures = [self.__pool.submit(..., mod) for mod in ...]: one task per Mod,
\* in list order, behind whatever the pool still holds.
RECURSIVE TasksFor(_, _)
TasksFor(kind, ms) ==
    IF ms = {} THEN <<>>
    ELSE LET m == CHOOSE x \in ms : \A y \in ms : x <= y
         IN  <<[kind |-> kind, mod |-> m, state |-> "queued", outcome |-> None]>>
                 \o TasksFor(kind, ms \ {m})

RunSubmit(kind) ==
    /\ rn_pc = "caller"
    /\ rn_calls < MaxRunCalls
    /\ \E fresh \in 0..(MaxInstances - rn_made) :
          /\ kind = "resolve_level" <=> fresh > 0
          /\ rn_made' = rn_made + fresh
          /\ rn_tasks' = rn_tasks \o TasksFor(kind, TaskMods(kind, rn_seeds, rn_made, fresh))
    /\ rn_kind' = kind
    /\ rn_calls' = rn_calls + 1
    /\ rn_pc' = "as_completed"
    /\ UNCHANGED rn_seeds

\* A worker thread takes the oldest queued work item.
RunStart(i) ==
    /\ rn_tasks[i].state = "queued"
    /\ \A j \in DOMAIN rn_tasks : rn_tasks[j].state = "queued" => i <= j
    /\ Cardinality({j \in DOMAIN rn_tasks : rn_tasks[j].state = "running"}) < Threads
    /\ rn_tasks' = [rn_tasks EXCEPT ![i].state = "running"]
    /\ UNCHANGED <<rn_seeds, rn_made, rn_pc, rn_kind, rn_calls>>

\* The work item returns or raises in its worker thread.
RunFinish(i) ==
    /\ rn_tasks[i].state = "running"
    /\ \E o \in Outcomes :
          rn_tasks' = [rn_tasks EXCEPT ![i].state = "finished", ![i].outcome = o]
    /\ UNCHANGED <<rn_seeds, rn_made, rn_pc, rn_kind, rn_calls>>

\* One iteration of `for future in as_completed(futures)`; an exception that
\* is no ModError (no ValueError in a download) goes to shutdown() and raise.
RunCollect(i) ==
    /\ rn_pc = "as_completed"
    /\ rn_tasks[i].state = "finished"
    /\ rn_tasks[i].kind = rn_kind
    /\ rn_tasks' = [rn_tasks EXCEPT ![i].state = "collected"]
    /\ rn_pc' = IF rn_tasks[i].outcome = "Transport" THEN "shutdown" ELSE "as_completed"
    /\ UNCHANGED <<rn_seeds, rn_made, rn_kind, rn_calls>>

\* self.__pool.shutdown() waits for every work item, then the exception is
\* re-raised: the run is over (the pool accepts no further submit).
RunShutdown ==
    /\ rn_pc = "shutdown"
    /\ \A i \in DOMAIN rn_tasks : rn_tasks[i].state \in {"finished", "collected"}
    /\ rn_pc' = "raised"
    /\ UNCHANGED <<rn_seeds, rn_made, rn_kind, rn_calls, rn_tasks>>

LoopLeftAtOnce(ts, kind) == TRUE

\* as_completed(futures) is exhausted: every future of the loop was yielded.
LoopExhausted(ts, kind) ==
    \A i \in DOMAIN ts : ts[i].kind = kind => ts[i].state = "collected"

\* The collected futures go out of scope.
RECURSIVE DropCollected(_)
DropCollected(ts) ==
    IF ts = <<>> THEN <<>>
    ELSE IF Head(ts).state = "collected" THEN DropCollected(Tail(ts))
         ELSE <<Head(ts)>> \o DropCollected(Tail(ts))

\* The loop ends and the calling thread goes on: to the next level, to the
\* phase's return, and from there to whatever the caller calls next.
RunLoopEnds ==
    /\ rn_pc = "as_completed"
    /\ LoopExhausted(rn_tasks, rn_kind)
    /\ rn_tasks' = DropCollected(rn_tasks)
    /\ rn_pc' = "caller"
    /\ UNCHANGED <<rn_seeds, rn_made, rn_kind, rn_calls>>

\* No run is under way.
RunIdle ==
    /\ rn_seeds = 0
    /\ rn_made = 0
    /\ rn_pc = "idle"
    /\ rn_kind = None
    /\ rn_calls = 0
    /\ rn_tasks = <<>>


vars == <<rlVars, resVars, dlVars, newVars, phVars, modVars, cxVars, exVars, rnVars>>

\* The RateLimiter of a ModManager at rest: RateLimiter(300), never called.
RLIdle == RLInit /\ rate_limit = RateLimitOf(300)

\* ---- resolve_dependencies
Init == ResInit /\ RLIdle /\ DLIdle /\ NewIdle /\ PhaseIdle /\ ModIdle /\ CtxIdle /\ ExpandIdle /\ RunIdle

Next ==
    \/ ProcessMod /\ UNCHANGED <<rlVars, dlVars, newVars, phVars, modVars, cxVars, exVars, rnVars>>
    \/ SubmitTasks /\ UNCHANGED <<rlVars, dlVars, newVars, phVars, modVars, cxVars, exVars, rnVars>>
    \/ \E i \in DOMAIN tasks : RunTask(i) /\ UNCHANGED <<rlVars, dlVars, newVars, phVars, modVars, cxVars, exVars, rnVars>>
    \/ \E i \in DOMAIN tasks : CollectTask(i) /\ UNCHANGED <<rlVars, dlVars, newVars, phVars, modVars, cxVars, exVars, rnVars>>
    \/ NextLevel /\ UNCHANGED <<rlVars, dlVars, newVars, phVars, modVars, cxVars, exVars, rnVars>>
    \/ Prune /\ UNCHANGED <<rlVars, dlVars, newVars, phVars, modVars, cxVars, exVars, rnVars>>
    \/ BuildGraph /\ UNCHANGED <<rlVars, dlVars, newVars, phVars, modVars, cxVars, exVars, rnVars>>

Spec == Init /\ [][Next]_vars

\* ---- RateLimiter.wait() under concurrent callers
InitRL == RLInit /\ ResIdle /\ DLIdle /\ NewIdle /\ PhaseIdle /\ ModIdle /\ CtxIdle /\ ExpandIdle /\ RunIdle

NextRL ==
    \/ Tick /\ UNCHANGED <<resVars, dlVars, newVars, phVars, modVars, cxVars, exVars, rnVars>>
    \/ \E t \in Callers : CallWait(t) /\ UNCHANGED <<resVars, dlVars, newVars, phVars, modVars, cxVars, exVars, rnVars>>
    \/ \E t \in Callers : AcquireLock(t) /\ UNCHANGED <<resVars, dlVars, newVars, phVars, modVars, cxVars, exVars, rnVars>>
    \/ \E t \in Callers : ReadNow(t) /\ UNCHANGED <<resVars, dlVars, newVars, phVars, modVars, cxVars, exVars, rnVars>>
    \/ \E t \in Callers : Wake(t) /\ UNCHANGED <<resVars, dlVars, newVars, phVars, modVars, cxVars, exVars, rnVars>>
    \/ \E t \in Callers : Stamp(t) /\ UNCHANGED <<resVars, dlVars, newVars, phVars, modVars, cxVars, exVars, rnVars>>
    \/ \E t \in Callers : ReleaseLock(t) /\ UNCHANGED <<resVars, dlVars, newVars, phVars, modVars, cxVars, exVars, rnVars>>

SpecRL == InitRL /\ [][NextRL]_vars

\* ---- download_mods
InitDL == DLInit /\ ResIdle /\ RLIdle /\ NewIdle /\ PhaseIdle /\ ModIdle /\ CtxIdle /\ ExpandIdle /\ RunIdle

NextDL ==
    \/ \E i \in DOMAIN dl_tasks : RunGetVersion(i) /\ UNCHANGED <<rlVars, resVars, newVars, phVars, modVars, cxVars, exVars, rnVars>>
    \/ \E i \in DOMAIN dl_tasks : CollectDl(i) /\ UNCHANGED <<rlVars, resVars, newVars, phVars, modVars, cxVars, exVars, rnVars>>
    \/ Gate /\ UNCHANGED <<rlVars, resVars, newVars, phVars, modVars, cxVars, exVars, rnVars>>
    \/ \E i \in DOMAIN dl_tasks : RunDownload(i) /\ UNCHANGED <<rlVars, resVars, newVars, phVars, modVars, cxVars, exVars, rnVars>>
    \/ FinishDownload /\ UNCHANGED <<rlVars, resVars, newVars, phVars, modVars, cxVars, exVars, rnVars>>

SpecDL == InitDL /\ [][NextDL]_vars

\* ---- Mod(url)
InitNew == NewInit /\ ResIdle /\ RLIdle /\ DLIdle /\ PhaseIdle /\ ModIdle /\ CtxIdle /\ ExpandIdle /\ RunIdle

NextNew ==
    \/ Construct /\ UNCHANGED <<rlVars, resVars, dlVars, phVars, modVars, cxVars, exVars, rnVars>>

SpecNew == InitNew /\ [][NextNew]_vars

\* ---- init_mod and check_version
InitPhase == PhaseInit /\ ResIdle /\ RLIdle /\ DLIdle /\ NewIdle /\ ModIdle /\ CtxIdle /\ ExpandIdle /\ RunIdle

NextPhase ==
    \/ \E i \in DOMAIN ph_tasks : StartTask(i) /\ UNCHANGED <<rlVars, resVars, dlVars, newVars, modVars, cxVars, exVars, rnVars>>
    \/ \E i \in DOMAIN ph_tasks : FinishTask(i) /\ UNCHANGED <<rlVars, resVars, dlVars, newVars, modVars, cxVars, exVars, rnVars>>
    \/ \E i \in DOMAIN ph_tasks : CollectPhase(i) /\ UNCHANGED <<rlVars, resVars, dlVars, newVars, modVars, cxVars, exVars, rnVars>>
    \/ ShutdownAndRaise /\ UNCHANGED <<rlVars, resVars, dlVars, newVars, modVars, cxVars, exVars, rnVars>>
    \/ ReturnPhase /\ UNCHANGED <<rlVars, resVars, dlVars, newVars, modVars, cxVars, exVars, rnVars>>

SpecPhase == InitPhase /\ [][NextPhase]_vars

\* ---- one Mod: init, query_version and the accessors
InitMod == ModInit /\ ResIdle /\ RLIdle /\ DLIdle /\ NewIdle /\ PhaseIdle /\ CtxIdle /\ ExpandIdle /\ RunIdle

NextMod ==
    \/ CallInit /\ UNCHANGED <<rlVars, resVars, dlVars, newVars, phVars, cxVars, exVars, rnVars>>
    \/ CallQueryVersion /\ UNCHANGED <<rlVars, resVars, dlVars, newVars, phVars, cxVars, exVars, rnVars>>
    \/ \E op \in Accessors : CallAccessor(op) /\ UNCHANGED <<rlVars, resVars, dlVars, newVars, phVars, cxVars, exVars, rnVars>>

SpecMod == InitMod /\ [][NextMod]_vars

\* ---- the ModManager context under get_mod
InitCtx == CtxInit /\ ResIdle /\ RLIdle /\ DLIdle /\ NewIdle /\ PhaseIdle /\ ModIdle /\ ExpandIdle /\ RunIdle

NextCtx ==
    \/ CtxSubmit /\ UNCHANGED <<rlVars, resVars, dlVars, newVars, phVars, modVars, exVars, rnVars>>
    \/ \E i \in DOMAIN cx_tasks : CtxWorkStart(i) /\ UNCHANGED <<rlVars, resVars, dlVars, newVars, phVars, modVars, exVars, rnVars>>
    \/ \E i \in DOMAIN cx_tasks : CtxWorkDone(i) /\ UNCHANGED <<rlVars, resVars, dlVars, newVars, phVars, modVars, exVars, rnVars>>
    \/ \E i \in DOMAIN cx_tasks : CtxCollect(i) /\ UNCHANGED <<rlVars, resVars, dlVars, newVars, phVars, modVars, exVars, rnVars>>
    \/ CtxLoopEnds /\ UNCHANGED <<rlVars, resVars, dlVars, newVars, phVars, modVars, exVars, rnVars>>
    \/ CtxAppendErrors /\ UNCHANGED <<rlVars, resVars, dlVars, newVars, phVars, modVars, exVars, rnVars>>
    \/ CtxReturn /\ UNCHANGED <<rlVars, resVars, dlVars, newVars, phVars, modVars, exVars, rnVars>>
    \/ CtxInterrupt /\ UNCHANGED <<rlVars, resVars, dlVars, newVars, phVars, modVars, exVars, rnVars>>
    \/ CtxShutdown /\ UNCHANGED <<rlVars, resVars, dlVars, newVars, phVars, modVars, exVars, rnVars>>
    \/ CtxPrint /\ UNCHANGED <<rlVars, resVars, dlVars, newVars, phVars, modVars, exVars, rnVars>>

SpecCtx == InitCtx /\ [][NextCtx]_vars

\* ---- the expand rule on arbitrary descriptors
InitExpand == ExpandInit /\ ResIdle /\ RLIdle /\ DLIdle /\ NewIdle /\ PhaseIdle /\ ModIdle /\ CtxIdle /\ RunIdle

NextExpand ==
    \/ ExpandStep /\ UNCHANGED <<rlVars, resVars, dlVars, newVars, phVars, modVars, cxVars, rnVars>>

SpecExpand == InitExpand /\ [][NextExpand]_vars

\* ---- the worker tasks of a run
InitRun == RunInit /\ ResIdle /\ RLIdle /\ DLIdle /\ NewIdle /\ PhaseIdle /\ ModIdle /\ CtxIdle /\ ExpandIdle

NextRun ==
    \/ \E kind \in RunKinds : RunSubmit(kind) /\ UNCHANGED <<rlVars, resVars, dlVars, newVars, phVars, modVars, cxVars, exVars>>
    \/ \E i \in DOMAIN rn_tasks : RunStart(i) /\ UNCHANGED <<rlVars, resVars, dlVars, newVars, phVars, modVars, cxVars, exVars>>
    \/ \E i \in DOMAIN rn_tasks : RunFinish(i) /\ UNCHANGED <<rlVars, resVars, dlVars, newVars, phVars, modVars, cxVars, exVars>>
    \/ \E i \in DOMAIN rn_tasks : RunCollect(i) /\ UNCHANGED <<rlVars, resVars, dlVars, newVars, phVars, modVars, cxVars, exVars>>
    \/ RunShutdown /\ UNCHANGED <<rlVars, resVars, dlVars, newVars, phVars, modVars, cxVars, exVars>>
    \/ RunLoopEnds /\ UNCHANGED <<rlVars, resVars, dlVars, newVars, phVars, modVars, cxVars, exVars>>

SpecRun == InitRun /\ [][NextRun]_vars

\* A step of caller t inside wait().
WaitStep(t) ==
    /\ AcquireLock(t) \/ ReadNow(t) \/ Wake(t) \/ Stamp(t) \/ ReleaseLock(t)
    /\ UNCHANGED <<resVars, dlVars, newVars, phVars, modVars, cxVars, exVars, rnVars>>

\* Time passes, and every thread inside wait() is scheduled again and again.
FairSpecRL ==
    /\ SpecRL
    /\ WF_vars(Tick /\ UNCHANGED <<resVars, dlVars, newVars, phVars, modVars, cxVars, exVars, rnVars>>)
    /\ \A t \in Callers : WF_vars(WaitStep(t))

FairSpec == Spec /\ WF_vars(Next)

\* The run of resolve_dependencies is over: it returned or raised.
Terminated == pc \in {"done", "raised"}

\* C3: under fair scheduling of the coordinating thread and of the workers,
\* every run of resolve_dependencies ends, whatever the (finite, possibly
\* cyclic) dependency graph of the registry: a run that has not ended can
\* always take a step (the frontier loop needs no more than MaxLevels
\* iterations), and it eventually ends.
C3_Terminates == <>Terminated /\ [](Terminated \/ ENABLED Next)

\* ---- vocabulary of the claims about resolve_dependencies

\* The chosen version of p declares a dependency of type ty on d.
Declares(p, d, ty) ==
    /\ reg[p].status = "ok"
    /\ \E k \in DOMAIN reg[p].deps :
          reg[p].deps[k] = [project_id |-> d, dependency_type |-> ty]

HasEdge(u, v, ty) == \E k \in DOMAIN edges : edges[k] = <<u, v, ty>>

\* Resolving d was attempted by a worker and failed with ModNotFoundError.
FailedNotFound(d) == reg[d].status \in FailStatus

ErrorAbout(d) == \E k \in DOMAIN errors : errors[k].kind = "NotFound" /\ errors[k].about = d

RemovalNotices(d) == {k \in DOMAIN finalmsg : finalmsg[k] = [kind |-> "removed", id |-> d]}

\* C2: at every moment of resolve_dependencies no project id is the key of
\* more than one entry of the node set.
C2_NoDuplicateNode ==
    \A i, j \in DOMAIN nodes : nodes[i].key = nodes[j].key => i = j

\* The run ended with a node that two different parents depend on.
C2_Witness ==
    /\ pc = "done"
    /\ \E d \in DictKeys(nodes) : \E a, b \in DictKeys(nodes) :
          a # b /\ HasEdge(d, a, "required") /\ HasEdge(d, b, "required")

\* The run ended normally on a cyclic graph: two mods require each other.
C3_Witness ==
    /\ pc = "done"
    /\ \E a, b \in DictKeys(nodes) :
          a # b /\ HasEdge(a, b, "required") /\ HasEdge(b, a, "required")

\* C4: during one run every project id enters the frontier at most once (so
\* no mod is resolved or processed a second time), for every seed list.
C4_EntersFrontierOnce == \A p \in Projects : entered[p] <= 1

\* C5's case: seed m declares d optional, d is no seed, resolving d failed
\* with NotFound, and no chosen version declares a non-optional dependency on d.
C5_Case(m, d) ==
    /\ IsSeed(mods, m)
    /\ ~IsSeed(mods, d)
    /\ Declares(m, d, "optional")
    /\ FailedNotFound(d)
    /\ \A p \in Projects, ty \in DepTypes \ {"optional"} : ~Declares(p, d, ty)

\* C5: in that case the run ends with no error of d in the error list and
\* with a removal notice for d.
C5_OptionalFailurePruned ==
    Terminated =>
        \A m, d \in Projects :
            C5_Case(m, d) => ~ErrorAbout(d) /\ RemovalNotices(d) # {}

\* C6's case: resolving d failed with NotFound, one mod has an optional edge
\* to d and another mod a required edge.
C6_Case(d) ==
    /\ FailedNotFound(d)
    /\ \E a, b \in Projects :
          a # b /\ HasEdge(d, a, "optional") /\ HasEdge(d, b, "required")

\* C6: in that case d's error stays in the error list, d stays a failed node
\* and resolve_dependencies returns halt.
C6_RequiredFailureStays ==
    Terminated =>
        \A d \in Projects :
            C6_Case(d) => ErrorAbout(d) /\ DictGet(nodes, d) = "failed" /\ result = "False"

\* C8's scenario: seeds [A, B], A requires C, B is incompatible with C, and
\* nothing else is declared.
C8_Scenario ==
    /\ mods = <<ResolvedMod("A"), ResolvedMod("B")>>
    /\ reg["A"] = [status |-> "ok",
                   deps |-> <<[project_id |-> "C", dependency_type |-> "required"]>>]
    /\ reg["B"] = [status |-> "ok",
                   deps |-> <<[project_id |-> "C", dependency_type |-> "incompatible"]>>]
    /\ reg["C"] = [status |-> "ok", deps |-> <<>>]

\* C8: the scenario ends with nodes A, B, C, the edges (C, A, required) and
\* (C, B, incompatible), one conflict of C with B that names A as needing C,
\* and the result halt.
C8_EndToEnd ==
    (Terminated /\ C8_Scenario) =>
        /\ pc = "done"
        /\ Len(nodes) = 3
        /\ DictKeys(nodes) = {"A", "B", "C"}
        /\ edges = << <<"C", "A", "required">>, <<"C", "B", "incompatible">> >>
        /\ errors = <<ConflictError("C", "B", <<"A">>)>>
        /\ result = "False"

C8_Witness == pc = "done" /\ C8_Scenario

\* C9: resolve_dependencies always ends by returning a boolean, and the
\* boolean is continue exactly when the error list is empty after pruning and
\* incompatibility detection.
C9_ReturnsContinueIffNoErrors ==
    Terminated => /\ result \in {"True", "False"}
                  /\ result = "True" <=> errors = <<>>

\* ---- vocabulary of the claims about download_mods

\* The i-th Mod's download task has run to its end.
Downloaded(i) == dl_submitted /\ stream[i] # None

\* The digest of the bytes streamed for the i-th Mod is the declared one.
DigestMatches(i) == Sha512Hex(stream[i]) = file_data[i].sha512

WritesOf(i) == {w \in written : w.mod = i}

DlErrorsOf(i) == {k \in DOMAIN dl_errors : dl_errors[k].mod = i}

FileResolved(i) == file_data[i] # NoFile

\* C10: no download task is submitted and no file is written unless
\* get_version succeeded for every Mod; when one failed, download_mods
\* returns halt after phase 1 with every failure collected.
C10_AllOrNothingGate ==
    /\ (dl_submitted \/ written # {} \/ (\E f \in Filenames : disk[f] # None)
                     \/ (\E i \in DOMAIN dl_mods : stream[i] # None))
          => \A i \in DOMAIN dl_mods : FileResolved(i)
    /\ (dl_pc \notin {"idle", "phase1"} /\ \E i \in DOMAIN dl_mods : ~FileResolved(i))
          => /\ dl_pc = "done"
             /\ dl_result = "False"
             /\ ~dl_submitted
             /\ {dl_phase1_errors[k].mod : k \in DOMAIN dl_phase1_errors}
                    = {i \in DOMAIN dl_mods : ~FileResolved(i)}
             /\ Len(dl_phase1_errors) = Cardinality({i \in DOMAIN dl_mods : ~FileResolved(i)})

\* download_mods returned after phase 1: one file reference was resolved and
\* one was not.
C10_Witness ==
    /\ dl_pc = "done"
    /\ dl_result = "False"
    /\ \E i, j \in DOMAIN dl_mods : FileResolved(i) /\ ~FileResolved(j)

\* ---- claims about Mod.__init__

\* C11: constructing a Mod from a string succeeds exactly when the string
\* matches the slug grammar; for every other string construction fails with
\* SlugNotValid and no Mod is created.
C11_ConstructIffSlugGrammar ==
    made # NotCalled =>
        IF MatchesSlugGrammar(url)
        THEN made = [kind |-> "Mod", slug_or_id |-> url]
        ELSE made.kind = "SlugNotValid"

\* ---- claims about the phases on the thread pool

\* The tasks that ended with an outcome.
Ended(o) == {i \in DOMAIN ph_tasks : ph_tasks[i].outcome = o}

\* The calling thread has observed a transport error.
TransportObserved == ph_pc \in {"shutdown", "raised"}

\* C12: when a task fails with a transport error, the error is not added to
\* the collected errors, the phase ends by raising it to the caller, and no
\* task that had not started begins to run after the failure was observed.
C12_TransportStopsWorkers ==
    /\ \A k \in DOMAIN ph_errors : ph_tasks[ph_errors[k]].outcome = "ModError"
    /\ TransportObserved => ph_result = None
    /\ ph_late = {}

\* C13: a phase returns only after every task has run to completion, with
\* every domain error raised collected once, and it returns halt exactly when
\* a domain error was collected.
C13_DomainErrorsCollected ==
    ph_pc = "returned" =>
        /\ \A i \in DOMAIN ph_tasks : ph_tasks[i].state = "collected"
        /\ {ph_errors[k] : k \in DOMAIN ph_errors} = Ended("ModError")
        /\ Len(ph_errors) = Cardinality(Ended("ModError"))
        /\ ph_result = "False" <=> Ended("ModError") # {}
        /\ ph_result = "True" <=> Ended("ModError") = {}
        /\ ph_result = "False" =>
              ph_finalmsg = <<[kind |-> "errors", errors |-> ph_errors]>>

\* The phase returned halt, and a sibling task began to run after a domain
\* error had been collected and ended normally.
C13_Witness ==
    /\ ph_pc = "returned"
    /\ ph_result = "False"
    /\ \E j \in Ended("ok") : ph_tasks[j].seen >= 1

\* ---- further claims about resolve_dependencies

\* C14: when resolving a dependency target fails with NotFound, for any of
\* its reasons, the frontier loop ends with the target recorded as a failed
\* node and its error in the error list, and resolve_dependencies ends by
\* returning its result, not by an exception.
C14_FailedTargetRecorded ==
    /\ pc = "prune" =>
          \A d \in Projects :
              FailedNotFound(d) => DictGet(nodes, d) = "failed" /\ ErrorAbout(d)
    /\ (Terminated /\ \E d \in Projects : FailedNotFound(d)) => pc = "done"

\* ---- claims about one Mod

\* C15: id(), title(), slug() and dependencies() return a value only after a
\* call of init has succeeded, version() and version_data() only after a call
\* of query_version has succeeded; in every other state, also after a failed
\* init, they raise a ModError.
C15_AccessorsOnlyAfterResolution ==
    /\ (m_last.op \in ProjectAccessors \cup {"dependencies"} /\ m_last.ret = "value")
          => m_init_ok
    /\ (m_last.op \in VersionAccessors /\ m_last.ret = "value") => m_query_ok
    /\ (m_last.op \in Accessors /\ m_last.ret # "value")
          => m_last.ret \in {"ModError", "ModNotFoundError"}

\* The entries of a version list that match the target version and loader.
Matching(versions) ==
    {k \in DOMAIN versions : /\ TargetVersion \in versions[k].game_versions
                             /\ TargetLoader \in versions[k].loaders}

\* C16: on a project-resolved Mod query_version stores the first entry of the
\* registry's list that holds the target game version and the target loader;
\* when no entry does, or the list is empty or the lookup answers 404, it
\* raises NotFound with the Mod's project id and the chosen version stays as
\* it was (unset on a Mod that had none).
C16_FirstMatchingVersion ==
    (m_last.op = "query_version" /\ m_last.answer.status \in {200, 404}) =>
        LET versions == m_last.answer.versions
        IN  IF Matching(versions) # {}
            THEN /\ m_last.ret = "value"
                 /\ m_version \in {versions[k] : k \in Matching(versions)}
                 /\ \A k \in Matching(versions) : m_version.id <= versions[k].id
            ELSE /\ m_last.ret = "ModNotFoundError"
                 /\ m_last.id = ProjectId
                 /\ m_version = m_last.before
                 /\ ~m_query_ok => m_version = NoVersion

\* query_version chose the first of two matching entries that differ.
C16_Witness ==
    /\ m_last.op = "query_version"
    /\ m_last.ret = "value"
    /\ Matching(m_last.answer.versions) = {1, 2}
    /\ m_last.answer.versions[1].loaders # m_last.answer.versions[2].loaders
    /\ m_version = m_last.answer.versions[1]

\* C17: on a version-resolved Mod dependencies() returns one Dep per raw
\* descriptor with a usable target, in order, version-pinned when a version
\* id is present and project-pinned otherwise, and it drops the descriptors
\* with neither id without raising.
C17_DependenciesDropUnusable ==
    (m_last.op = "dependencies" /\ m_version # NoVersion) =>
        LET usable == SelectSeq(m_version.dependencies, Usable)
        IN  /\ m_last.ret = "value"
            /\ m_last.value = [i \in DOMAIN usable |-> GenerateDep(usable[i])]

\* C18: the levels of resolve_dependencies are strictly sequential. While
\* the frontier of a level is processed no resolution task is outstanding,
\* and every member of a later frontier has been through its resolution task;
\* resolution tasks exist only once the whole frontier of the level has been
\* processed, with every dependency queued by it entered into nodes.
C18_LevelsSequential ==
    /\ pc = "for" =>
          /\ tasks = <<>>
          /\ level > 1 =>
                \A i \in DOMAIN mods_cur : reg[mods_cur[i].slug_or_id].status # "unknown"
    /\ tasks # <<>> =>
          /\ pc = "collect"
          /\ idx = Len(mods_cur) + 1
          /\ Len(tasks) = Len(dep_mods)
          /\ \A i \in DOMAIN dep_mods : DictHas(nodes, dep_mods[i].slug_or_id)

\* A frontier of two mods, resolved by two tasks of the previous level, is
\* being processed.
C18_Witness ==
    /\ pc = "for"
    /\ level = 2
    /\ Len(mods_cur) = 2
    /\ idx = 2

\* The step of the pruning loop removes node d.
Removes(d) == pc = "prune" /\ pc' = "build" /\ DictHas(nodes, d) /\ ~DictHas(nodes', d)

\* C20: the pruning loop removes a node only if it is a failed node that at
\* least one edge references and that only optional edges reference; when it
\* removes d, afterwards d is absent from nodes and from all_mods, no error
\* of d is in the error list, no edge has d as an endpoint, and exactly one
\* removal notice for d is in the final messages. It adds no notice for a
\* node it does not remove.
C20_PruningRemovesOptionalOnly ==
    [][\A d \in Projects :
          /\ Removes(d) =>
                /\ DictGet(nodes, d) = "failed"
                /\ \E k \in DOMAIN edges : edges[k][1] = d
                /\ \A k \in DOMAIN edges : edges[k][1] = d => edges[k][3] = "optional"
                /\ ~DictHas(all_mods', d)
                /\ \A k \in DOMAIN errors' : errors'[k].about # d /\ errors'[k].id # d
                /\ \A k \in DOMAIN edges' : edges'[k][1] # d /\ edges'[k][2] # d
                /\ Cardinality({k \in DOMAIN finalmsg' :
                                  finalmsg'[k] = [kind |-> "removed", id |-> d]}) = 1
          /\ ~Removes(d) =>
                \A k \in DOMAIN finalmsg' :
                    finalmsg'[k] = [kind |-> "removed", id |-> d] => k \in DOMAIN finalmsg
      ]_vars

\* The pruning loop has removed a failed node that two mods declared as an
\* optional dependency.
C20_Witness ==
    /\ pc = "build"
    /\ \E d \in Projects :
          /\ FailedNotFound(d)
          /\ ~DictHas(nodes, d)
          /\ RemovalNotices(d) # {}
          /\ \E a, b \in Projects : a # b /\ Declares(a, d, "optional") /\ Declares(b, d, "optional")

\* ---- claims about the ModManager context

\* The run was interrupted and has exited.
InterruptedExit == cx_pc = "exited" /\ cx_exc = "KeyboardInterrupt"

\* C19: after an interrupt raised while a phase runs inside the ModManager
\* context nothing is submitted to the pool any more; when the run exits the
\* pool is shut down with no work item left, and every message that was
\* buffered has been printed exactly once, though finish() ran twice.
C19_InterruptFlushesOnce ==
    /\ cx_late = 0
    /\ cx_exc = "KeyboardInterrupt" => cx_pc \notin {"submit", "as_completed", "append", "return"}
    /\ \A i, j \in DOMAIN cx_printed : cx_printed[i] = cx_printed[j] => i = j
    /\ InterruptedExit =>
          /\ cx_pool = "shut"
          /\ Unfinished(cx_tasks) = {}
          /\ cx_finishes = 2
          /\ cx_printed = cx_added
          /\ cx_finalmsg = <<>>

\* The interrupt came while a message was buffered; the run has exited.
C19_Witness ==
    /\ InterruptedExit
    /\ cx_printed # <<>>
    /\ cx_finishes = 2

\* ---- claims about the incompatibility detection

\* The conflicts of the error list that name `dep` as incompatible with `mod`.
ConflictsOf(dep, mod) ==
    {e \in DOMAIN errors : errors[e].kind = "Incompatible" /\ errors[e].id = dep
                           /\ errors[e].about = mod}

\* The mods with a required or optional edge from target u.
Needing(u) ==
    {edges[k][2] : k \in {j \in DOMAIN edges : /\ edges[j][1] = u
                                                /\ edges[j][3] \in {"required", "optional"}}}

\* C21: when resolve_dependencies returns, the error list holds one conflict
\* for every incompatible edge of the final edge list and no other conflict;
\* the conflict names the incompatible target and the declaring mod and lists
\* exactly the mods with a required or optional edge from the same target;
\* and an incompatible edge makes the result halt.
C21_ConflictPerIncompatibleEdge ==
    pc = "done" =>
        /\ \A u, v \in Projects :
              Cardinality(ConflictsOf(u, v))
                 = Cardinality({k \in DOMAIN edges : edges[k] = <<u, v, "incompatible">>})
        /\ \A e \in DOMAIN errors :
              errors[e].kind = "Incompatible" =>
                  {errors[e].true_deps[i] : i \in DOMAIN errors[e].true_deps}
                      = Needing(errors[e].id)
        /\ (\E k \in DOMAIN edges : edges[k][3] = "incompatible") => result = "False"

\* The run returned with an incompatible edge whose target another mod needs.
C21_Witness ==
    /\ pc = "done"
    /\ \E k \in DOMAIN edges : edges[k][3] = "incompatible" /\ Needing(edges[k][1]) # {}
    /\ \E k \in DOMAIN edges : edges[k][3] = "incompatible" /\ Needing(edges[k][1]) = {}

\* ---- claims about the expand rule

\* The descriptor of history entry s is one the rule passes over: it has no
\* project id, or it is incompatible, or optional while optional mods are not
\* allowed, and its target was no known node when it was examined.
PassedOver(s) ==
    \/ s.dep.project_id = None
    \/ /\ \/ s.dep.dependency_type = "incompatible"
          \/ s.dep.dependency_type = "optional" /\ ~ex_allow
       /\ ~s.existed

\* The history entries up to i that recorded an edge / queued their target.
Recorded(i) == {j \in 1..i : ex_seen[j].edge = 1}
QueuedBy(i) == {j \in 1..i : ex_seen[j].queued = 1}

\* C22: every descriptor examined records the edge (target, parent, type) and
\* queues its target exactly when the target was no known node, except the
\* descriptors passed over, which record no edge and queue nothing; the edge
\* list and the queue hold exactly these edges and targets, in order.
C22_ExpandRule ==
    /\ \A i \in DOMAIN ex_seen :
          LET s == ex_seen[i]
          IN  /\ s.edge = IF PassedOver(s) THEN 0 ELSE 1
              /\ s.queued = IF ~PassedOver(s) /\ ~s.existed THEN 1 ELSE 0
              /\ s.edge = 1 =>
                    ex_acc.edges[Cardinality(Recorded(i))]
                        = <<s.dep.project_id, ex_parent, s.dep.dependency_type>>
              /\ s.queued = 1 =>
                    /\ ex_acc.dep_mods[Cardinality(QueuedBy(i))] = NewMod(s.dep.project_id)
                    /\ DictHas(ex_acc.nodes, s.dep.project_id)
    /\ Len(ex_acc.edges) = Cardinality(Recorded(Len(ex_seen)))
    /\ Len(ex_acc.dep_mods) = Cardinality(QueuedBy(Len(ex_seen)))

\* A list was expanded in which one descriptor was passed over, and a later
\* one of a pass-over type recorded an edge because its target was known.
C22_Witness ==
    /\ ex_deps = <<>>
    /\ \E i, j \in DOMAIN ex_seen :
          /\ i < j
          /\ PassedOver(ex_seen[i]) /\ ex_seen[i].dep.project_id # None
          /\ ex_seen[j].dep.dependency_type \in {"incompatible", "optional"}
          /\ ex_seen[j].edge = 1 /\ ex_seen[j].queued = 0

\* C23: a required descriptor that names its target by a version id only is
\* resolved like a project-keyed one: examining it records an edge from its
\* target and queues the target as a node to resolve.
C23_VersionKeyedResolved ==
    \A i \in DOMAIN ex_seen :
        LET s == ex_seen[i]
        IN  (/\ s.dep.dependency_type = "required"
             /\ s.dep.version_id # None
             /\ s.dep.project_id = None) => s.edge = 1 /\ s.queued = 1

\* ---- further claims about download_mods

\* The download of the i-th Mod failed its integrity check.
IntegrityFailed(i) == Downloaded(i) /\ ~DigestMatches(i)

\* C24: in phase 2 an integrity failure aborts nothing. download_mods
\* returns from phase 2 only when every download task has run and has been
\* collected; then every mod whose stream matched its digest has been written,
\* the error list holds one error for each integrity failure and nothing
\* else, and the result is failure exactly when there was one.
C24_IntegrityFailureIsolated ==
    /\ dl_pc = "phase2" => dl_result = "running"
    /\ (dl_pc = "done" /\ dl_submitted) =>
          /\ \A i \in DOMAIN dl_mods :
                /\ Downloaded(i)
                /\ dl_tasks[i].state = "collected"
                /\ DigestMatches(i) =>
                      WritesOf(i) = {[mod |-> i, filename |-> file_data[i].filename,
                                      bytes |-> stream[i]]}
                /\ Cardinality(DlErrorsOf(i)) = IF IntegrityFailed(i) THEN 1 ELSE 0
          /\ \A k \in DOMAIN dl_errors : dl_errors[k].kind = "ValueError"
          /\ dl_result = "False" <=> \E i \in DOMAIN dl_mods : IntegrityFailed(i)

\* download_mods returned failure; the integrity failure of one mod was
\* collected before the download of another, which was written.
C24_Witness ==
    /\ dl_pc = "done"
    /\ dl_result = "False"
    /\ \E i, j \in DOMAIN dl_mods :
          /\ IntegrityFailed(i) /\ dl_errors[1].mod = i
          /\ Downloaded(j) /\ DigestMatches(j) /\ WritesOf(j) # {}

\* ---- claims about the worker tasks of a run

\* The work items on Mod m that a worker holds or will still take.
Outstanding(m) == {i \in DOMAIN rn_tasks : rn_tasks[i].mod = m
                                            /\ rn_tasks[i].state \in {"queued", "running"}}

\* C25: at every moment at most one work item on a Mod is running, and none
\* is queued behind it: a loop submits one task per Mod, and while the tasks
\* of a loop are queued or running every work item in the pool is of
\* that loop, so a later phase's tasks for a Mod are submitted only when the
\* earlier phase's have all ended.
C25_OneWorkerPerMod ==
    /\ \A m \in 1..MaxInstances : Cardinality(Outstanding(m)) <= 1
    /\ \A i \in DOMAIN rn_tasks :
          rn_tasks[i].state \in {"queued", "running"} => rn_tasks[i].kind = rn_kind
    /\ \A i, j \in DOMAIN rn_tasks :
          (rn_tasks[i].kind = rn_tasks[j].kind /\ rn_tasks[i].mod = rn_tasks[j].mod) => i = j

\* A third loop runs: two tasks of it are running at once, on different Mods
\* that earlier loops had tasks for.
C25_Witness ==
    /\ rn_calls = 3
    /\ rn_kind = "download"
    /\ \E i, j \in DOMAIN rn_tasks :
          /\ i # j
          /\ rn_tasks[i].state = "running" /\ rn_tasks[j].state = "running"
          /\ rn_tasks[i].mod # rn_tasks[j].mod

\* ---- claims about the order in which the tasks of a level complete

\* The run of resolve_dependencies in which the futures of every level
\* complete in the order of their submission, on the registry content reg.
\* One iteration of `for mod in mods_cur`:
SeqProcess(st, mod) ==
    IF st.raised \/ ~mod.project THEN [st EXCEPT !.raised = TRUE]
    ELSE LET id == mod.slug_or_id
             am == DictSet(st.all_mods, id, mod)
         IN  IF ~mod.version
             THEN [st EXCEPT !.all_mods = am, !.nodes = DictSet(st.nodes, id, "failed")]
             ELSE LET acc == ExpandDeps([nodes |-> DictSet(st.nodes, id, "resolved"),
                                         edges |-> st.edges,
                                         dep_mods |-> st.dep_mods,
                                         met |-> {}],
                                        allow_optional_mod, id, reg[id].deps)
                  IN  [st EXCEPT !.all_mods = am, !.nodes = acc.nodes,
                                 !.edges = acc.edges, !.dep_mods = acc.dep_mods]

RECURSIVE SeqFor(_, _)
SeqFor(st, frontier) ==
    IF frontier = <<>> THEN st
    ELSE SeqFor(SeqProcess(st, Head(frontier)), Tail(frontier))

\* The errors of the level's tasks, in submission order.
RECURSIVE SeqErrors(_)
SeqErrors(ms) ==
    IF ms = <<>> THEN <<>>
    ELSE LET e == ErrorOfInit(Head(ms), reg[Head(ms).slug_or_id].status)
         IN  (IF e = NoError THEN <<>> ELSE <<e>>) \o SeqErrors(Tail(ms))

RECURSIVE SeqLevels(_, _)
SeqLevels(st, frontier) ==
    IF frontier = <<>> THEN st
    ELSE LET after == SeqFor(st, frontier)
         IN  IF after.raised THEN after
             ELSE SeqLevels([after EXCEPT !.errors = after.errors \o SeqErrors(after.dep_mods),
                                          !.dep_mods = <<>>],
                            [i \in DOMAIN after.dep_mods |->
                                ModAfterInit(after.dep_mods[i],
                                             reg[after.dep_mods[i].slug_or_id].status)])

\* What that run ends with: whether it raised, the nodes, the edges and the
\* returned boolean.
SeqRun ==
    LET loop == SeqLevels([nodes |-> <<>>, edges |-> <<>>, dep_mods |-> <<>>, errors |-> <<>>,
                           all_mods |-> <<>>, raised |-> FALSE], mods)
        pruned == PruneAll([errors |-> loop.errors, all_mods |-> loop.all_mods,
                            nodes |-> loop.nodes, edges |-> loop.edges, finalmsg |-> <<>>],
                           mods, loop.errors)
    IN  IF loop.raised \/ BuildRaises(pruned.nodes, pruned.edges)
        THEN [raised |-> TRUE, nodes |-> IF loop.raised THEN loop.nodes ELSE pruned.nodes,
              edges |-> IF loop.raised THEN loop.edges ELSE pruned.edges, result |-> None]
        ELSE [raised |-> FALSE, nodes |-> pruned.nodes, edges |-> pruned.edges,
              result |-> IF ShouldContinue(pruned.errors \o Conflicts(pruned.edges, pruned.edges))
                         THEN "True" ELSE "False"]

\* A worker has run a task in this step.
WorkerStep == \E i \in DOMAIN tasks : tasks[i].state = "pending" /\ tasks'[i].state = "done"

\* C26: for the registry content and the seed list of the run, the nodes, the
\* edges and the result (or the exception) a run ends with are those of the
\* run in which the tasks of every level complete in submission order,
\* whatever the order in which they did complete; and a step of a worker
\* task leaves the node map, the edge list, the error list and all_mods as
\* they are.
C26_CompletionOrderIrrelevant ==
    /\ [](Terminated =>
             /\ (pc = "raised") = SeqRun.raised
             /\ nodes = SeqRun.nodes
             /\ edges = SeqRun.edges
             /\ result = SeqRun.result)
    /\ [][WorkerStep => UNCHANGED <<nodes, edges, errors, all_mods>>]_vars

\* The run returned after the two tasks of a level completed in the reverse
\* of their submission order, both with an error.
C26_Witness ==
    /\ pc = "done"
    /\ \E i, j \in DOMAIN errors :
          /\ i < j
          /\ errors[i].kind = "NotFound" /\ errors[j].kind = "NotFound"
          /\ Rank(errors[i].about) > Rank(errors[j].about)
          /\ \E p \in Projects : Declares(p, errors[i].about, "required")
                                 /\ Declares(p, errors[j].about, "required")

\* ---- claims about Mod.init

\* The last call was init, and the registry answered 200 with project data
\* that declares `side` unsupported while the caller requires it.
RequiredSideUnsupported ==
    \/ m_args.require_client /\ m_args.answer.project.client_side = "unsupported"
    \/ m_args.require_server /\ m_args.answer.project.server_side = "unsupported"

\* C27: init fails with a ModNotFoundError that carries the project id when
\* a side the caller requires is declared unsupported; on every other project
\* data it returns, whatever a side that is not required declares; and on a
\* 404 of a Mod that never had project data it fails with a ModNotFoundError
\* that carries no id.
C27_InitSideCheck ==
    m_last.op = "init" =>
        /\ (m_args.answer.status = 200 /\ RequiredSideUnsupported) =>
              m_last.ret = "ModNotFoundError" /\ m_last.id = m_args.answer.project.id
        /\ (m_args.answer.status = 200 /\ ~RequiredSideUnsupported) => m_last.ret = "value"
        /\ (m_args.answer.status = 404 /\ m_args.before = NoProject) =>
              m_last.ret = "ModNotFoundError" /\ m_last.id = None

\* init returned for a caller that requires the client side only, on a
\* project whose client side is unknown and whose server side is unsupported.
C27_Witness ==
    /\ m_last.op = "init"
    /\ m_last.ret = "value"
    /\ m_args.require_client /\ ~m_args.require_server
    /\ m_args.answer.project.client_side = "unknown"
    /\ m_args.answer.project.server_side = "unsupported"

\* ---- claims about the termination of RateLimiter.wait()

\* The callers inside `with self.lock`.
InCritical == {t \in Callers : wpc[t] \in {"now", "asleep", "stamp", "release"}}

\* C28: every call of wait() returns; at any time at most one caller is
\* inside the critical section, and it is the one that holds the lock; and
\* the lock is free when the call has returned.
C28_WaitReturns ==
    /\ \A t \in Callers : (wpc[t] # "idle") ~> (wpc[t] = "idle")
    /\ [](/\ Cardinality(InCritical) <= 1
          /\ \A t \in Callers : t \in InCritical <=> lock = t
          /\ InCritical = {} => lock = 0)

\* Every caller has returned from all its calls, one of them after a sleep of
\* the whole interval, and the lock is free.
C28_Witness ==
    /\ \A t \in Callers : wcalls[t] = MaxCalls /\ wpc[t] = "idle"
    /\ lock = 0
    /\ \E i \in DOMAIN releases : i > 1 /\ releases[i] - releases[i - 1] = rate_limit

\* ---- claims about incompatibilities and the processing order

\* C29: when resolve_dependencies returns, every incompatible dependency
\* that a mod of the final graph declares on another node of the final graph
\* is reported as a conflict between the two, and the result is halt,
\* wherever the two mods stand in the seed list and in the processing order.
C29_IncompatibilityOrderFree ==
    pc = "done" =>
        \A x, y \in DictKeys(nodes) :
            Declares(x, y, "incompatible") =>
                ConflictsOf(y, x) # {} /\ result = "False"

\* ---- claims about runs that do not allow optional mods

\* Node d has an edge to a parent that is neither optional nor incompatible.
NeededBy(d) ==
    {k \in DOMAIN edges : edges[k][1] = d /\ edges[k][3] \notin {"optional", "incompatible"}}

\* C30: with allow_optional_mod false every node that is no seed has an edge
\* to a parent that is neither optional nor incompatible, at every moment of
\* the run; the pruning loop removes nothing (every mod that entered the
\* frontier is still a node after it), and no removal notice is added.
C30_NoPruningWithoutOptional ==
    ~allow_optional_mod =>
        /\ \A d \in DictKeys(nodes) : ~IsSeed(mods, d) => NeededBy(d) # {}
        /\ \A d \in Projects : RemovalNotices(d) = {}
        /\ pc \in {"build", "done"} =>
              \A p \in Projects : entered[p] > 0 => DictHas(nodes, p)

\* A run without optional mods returned: an optional dependency was passed
\* over, and a required one failed and kept its node and its error.
C30_Witness ==
    /\ ~allow_optional_mod
    /\ pc = "done"
    /\ \E p, d \in Projects : Declares(p, d, "optional") /\ ~DictHas(nodes, d)
    /\ \E d \in Projects :
          /\ ~IsSeed(mods, d)
          /\ FailedNotFound(d)
          /\ DictGet(nodes, d) = "failed"
          /\ ErrorAbout(d)

\* ---- claims about what resolve_dependencies hands to download_mods

\* Every node has attributes and both endpoints of every edge are nodes.
GraphWellFormed ==
    /\ \A i \in DOMAIN nodes : nodes[i].value # None
    /\ \A k \in DOMAIN edges : DictHas(nodes, edges[k][1]) /\ DictHas(nodes, edges[k][2])

\* C31: when the frontier loop has ended, and again when the pruning loop
\* has ended, every node has attributes and both endpoints of every edge are
\* nodes, so building the graph raises nothing; and when
\* resolve_dependencies has returned continue, the keys of all_mods are the
\* nodes of the graph and every Mod in all_mods has project data and a chosen
\* version, so that get_version raises its ModError for none of them,
\* whatever the registry answers.
C31_GraphAndAllModsConsistent ==
    /\ pc \in {"prune", "build", "done"} => GraphWellFormed
    /\ result = "True" =>
          /\ DictKeys(all_mods) = DictKeys(nodes)
          /\ Len(all_mods) = Len(nodes)
          /\ \A i \in DOMAIN all_mods :
                /\ all_mods[i].value.project /\ all_mods[i].value.version
                /\ all_mods[i].value.slug_or_id = all_mods[i].key
                /\ \A detail \in VersionDetails :
                      GetVersionError(all_mods[i].value, detail) # "ModError"

\* The run returned continue after the pruning loop removed a failed
\* optional dependency; a seed and a dependency of it are left in all_mods.
C31_Witness ==
    /\ pc = "done"
    /\ result = "True"
    /\ \E d \in Projects : RemovalNotices(d) # {}
    /\ \E a, b \in DictKeys(all_mods) : IsSeed(mods, a) /\ ~IsSeed(mods, b) /\ HasEdge(b, a, "required")

====
